---- MODULE Spec2Model ----
(***************************************************************************)
(* A model of the retrieval-augmented question-answering pipeline:         *)
(* ChunkerService (chunker.py), DenseVectorStore (vector_store_dense.py),  *)
(* QdrantVectorStore (vector_store_qdrant.py), LLMClient (llm_client.py)   *)
(* and the orchestrator RAGService (rag_service.py).                       *)
(*                                                                         *)
(* Texts are TLA+ strings over ASCII; a character is a string of length 1. *)
(* Python's str methods are modelled by the operators of the first         *)
(* section, each computed the way the CPython method computes it on ASCII  *)
(* input.                                                                  *)
(***************************************************************************)
EXTENDS Integers, Sequences, FiniteSets, Bags, TLC

(***************************************************************************)
(* Python string primitives                                                *)
(***************************************************************************)

\* s[i-1] in Python (1-based here)
Ch(s, i) == SubSeq(s, i, i)

\* s[i-1:] in Python
From(s, i) == SubSeq(s, i, Len(s))

\* the least element of a non-empty set of integers
Min(S) == CHOOSE x \in S : \A y \in S : x <= y

\* the greatest element of a non-empty set of integers
Max(S) == CHOOSE x \in S : \A y \in S : x >= y

\* str.isspace() on one ASCII character: space, \t \n \r \f, and the
\* control characters VT (0x0b), FS (0x1c), GS (0x1d), RS (0x1e), US (0x1f)
WhiteSpace == {" ", "\n", "\t", "\r", "\f", "", "", "", "", ""}

IsSpace(c) == c \in WhiteSpace

\* the first index >= i of a character that is not whitespace, Len(s) + 1 if none
RECURSIVE FirstNonSpace(_, _)
FirstNonSpace(s, i) ==
    IF i > Len(s) \/ ~IsSpace(Ch(s, i)) THEN i ELSE FirstNonSpace(s, i + 1)

\* the last index <= i of a character that is not whitespace, 0 if none
RECURSIVE LastNonSpace(_, _)
LastNonSpace(s, i) ==
    IF i = 0 \/ ~IsSpace(Ch(s, i)) THEN i ELSE LastNonSpace(s, i - 1)

\* str.strip(): leading and trailing whitespace removed
Strip(s) == SubSeq(s, FirstNonSpace(s, 1), LastNonSpace(s, Len(s)))

\* str.rstrip(): trailing whitespace removed
RStrip(s) == SubSeq(s, 1, LastNonSpace(s, Len(s)))

\* str.startswith(p)
StartsWith(s, p) == Len(s) >= Len(p) /\ SubSeq(s, 1, Len(p)) = p

\* str.find(sub, from) + 1: the first index >= from where sub occurs, 0 if none
MinOrZero(at) == IF at = {} THEN 0 ELSE Min(at)

Find(s, sub, from) ==
    MinOrZero({i \in from..(Len(s) - Len(sub) + 1) : SubSeq(s, i, i + Len(sub) - 1) = sub})

\* sub in s
Contains(s, sub) == Find(s, sub, 1) # 0

\* the places where sep occurs in s
Occurrences(s, sep) ==
    {i \in 1..(Len(s) - Len(sep) + 1) : SubSeq(s, i, i + Len(sep) - 1) = sep}

\* the occurrences no other occurrence runs into from the left: scanning
\* left to right and passing over each separator found, str.split stops at
\* each of them, whatever it stopped at before
CutPoints(at, n) == {j \in at : \A i \in at : i >= j \/ i <= j - n}

\* the cut point nearest to the middle of s, the first of two as near; 0 if
\* sep is not in s (the first occurrence is a cut point)
MiddleCut(cuts, mid) ==
    IF cuts = {} THEN 0
    ELSE CHOOSE j \in cuts :
            \A i \in cuts :
                \/ (j - mid) * (j - mid) < (i - mid) * (i - mid)
                \/ (j - mid) * (j - mid) = (i - mid) * (i - mid) /\ j <= i

\* str.split(sep): left to right, non-overlapping, empty pieces kept
RECURSIVE Split(_, _)
\* the split of s at the cut point i: the pieces before it, then those after
SplitAt(s, sep, i) ==
    IF i = 0 THEN <<s>>
    ELSE Split(SubSeq(s, 1, i - 1), sep) \o Split(From(s, i + Len(sep)), sep)

Split(s, sep) ==
    SplitAt(s, sep, MiddleCut(CutPoints(Occurrences(s, sep), Len(sep)), Len(s) \div 2))

\* sep.join(parts)
RECURSIVE Join(_, _)
Join(parts, sep) ==
    IF parts = <<>> THEN ""
    ELSE IF Len(parts) = 1 THEN parts[1]
    ELSE Join(SubSeq(parts, 1, Len(parts) \div 2), sep) \o sep
            \o Join(SubSeq(parts, Len(parts) \div 2 + 1, Len(parts)), sep)

\* str.replace(old, new)
Replace(s, old, new) == Join(Split(s, old), new)

\* the ASCII line boundaries of str.splitlines(): \n, \r (with \r\n as one),
\* \f, and the control characters VT (0x0b), FS (0x1c), GS (0x1d), RS (0x1e)
LineBreaks == {"\n", "\r", "\f", "", "", "", ""}

\* the length of the line boundary at position i
BreakLen(s, i) ==
    IF Ch(s, i) = "\r" /\ i < Len(s) /\ Ch(s, i + 1) = "\n" THEN 2 ELSE 1

RECURSIVE SplitLines(_)
\* the line before the boundary at i (0: no boundary left), then the other lines
SplitLinesAt(s, i) ==
    IF i = 0 THEN (IF s = "" THEN <<>> ELSE <<s>>)
    ELSE <<SubSeq(s, 1, i - 1)>> \o SplitLines(From(s, i + BreakLen(s, i)))

\* str.splitlines(): no line after a final boundary
SplitLines(s) == SplitLinesAt(s, MinOrZero({i \in 1..Len(s) : Ch(s, i) \in LineBreaks}))

\* str.count(sub): non-overlapping occurrences
Count(s, sub) == Len(Split(s, sub)) - 1

UpperChars == {"A","B","C","D","E","F","G","H","I","J","K","L","M",
               "N","O","P","Q","R","S","T","U","V","W","X","Y","Z"}

LowerChars == {"a","b","c","d","e","f","g","h","i","j","k","l","m",
               "n","o","p","q","r","s","t","u","v","w","x","y","z"}

DigitChars == {"0","1","2","3","4","5","6","7","8","9"}

UpperSeq == "ABCDEFGHIJKLMNOPQRSTUVWXYZ"

LowerSeq == "abcdefghijklmnopqrstuvwxyz"

\* str.lower() on one character
LowerCh(c) ==
    IF c \in UpperChars THEN Ch(LowerSeq, Find(UpperSeq, c, 1)) ELSE c

\* str.lower()
RECURSIVE Lower(_)
Lower(s) ==
    IF Len(s) = 0 THEN ""
    ELSE IF Len(s) = 1 THEN LowerCh(s)
    ELSE Lower(SubSeq(s, 1, Len(s) \div 2)) \o Lower(From(s, Len(s) \div 2 + 1))

\* sum(ch.isupper() for ch in s)
CountUpper(s) == Cardinality({i \in 1..Len(s) : Ch(s, i) \in UpperChars})

\* [x.strip() for x in seq]
StripAll(seq) == [i \in 1..Len(seq) |-> Strip(seq[i])]

\* [x.rstrip() for x in seq]
RStripAll(seq) == [i \in 1..Len(seq) |-> RStrip(seq[i])]

\* [x for x in seq if x]
NonEmpty(seq) == SelectSeq(seq, LAMBDA x : x # "")

\* sum(len(x) for x in seq)
RECURSIVE SumLen(_)
SumLen(seq) == IF seq = <<>> THEN 0 ELSE Len(seq[1]) + SumLen(Tail(seq))

(***************************************************************************)
(* ChunkerService (chunker.py)                                             *)
(***************************************************************************)

target_chars == 350

min_chars == 120

max_chars == 700

overlap_blocks == 1

\* re.sub(r"\n{3,}", "\n\n", text): each run of three or more line breaks
\* becomes two
RECURSIVE CollapseBlankLines(_)
\* the substitution from i on, the first place of "\n\n\n" in s (0: none)
CollapseAt(s, i) ==
    IF i = 0 THEN s
    ELSE SubSeq(s, 1, i - 1) \o "\n\n"
            \o CollapseBlankLines(From(s, MinOrZero({j \in i..Len(s) : Ch(s, j) # "\n"} \cup {Len(s) + 1})))

CollapseBlankLines(s) == CollapseAt(s, Find(s, "\n\n\n", 1))

\* ChunkerService._normalize (the zero-width replacements leave ASCII as it is)
Normalize(text) ==
    Strip(CollapseBlankLines(
        Join(RStripAll(SplitLines(Replace(Replace(text, "\r\n", "\n"), "\r", "\n"))), "\n")))

bad_phrases ==
    <<"cookie", "privacy policy", "terms of service", "accept all", "manage cookies",
      "subscribe", "sign in", "log in", "newsletter", "all rights reserved">>

\* the ASCII characters of the class [-–—_=•\s]
SeparatorChars == {"-", "_", "="} \cup WhiteSpace

\* ChunkerService._is_boilerplate_line
IsBoilerplateLine(line) ==
    \/ Len(line) <= 2
    \/ /\ Len(line) < 120
       /\ \E p \in 1..Len(bad_phrases) : Contains(Lower(line), bad_phrases[p])
    \/ /\ Len(line) >= 5
       /\ \A i \in 1..Len(line) : Ch(line, i) \in SeparatorChars
    \/ /\ Len(line) < 120
       /\ Count(line, " / ") >= 3

heading_words == <<"step", "chapter", "overview", "introduction", "installation">>

\* \w of the regular expressions, on ASCII
WordChars == UpperChars \cup LowerChars \cup DigitChars \cup {"_"}

\* re.match(r"^(step|chapter|overview|introduction|installation)\b", l)
MatchesHeadingWord(l) ==
    \E w \in 1..Len(heading_words) :
        /\ StartsWith(l, heading_words[w])
        /\ \/ Len(l) = Len(heading_words[w])
           \/ Ch(l, Len(heading_words[w]) + 1) \notin WordChars

\* ChunkerService._looks_like_heading
LooksLikeHeading(line) ==
    \/ StartsWith(line, "#")
    \/ Len(line) <= 80 /\ MatchesHeadingWord(Lower(line))
    \/ Len(line) <= 60 /\ CountUpper(line) >= 2

\* [ln.strip() for ln in b.split("\n") if ln.strip()] without the boilerplate lines
CleanLines(b) ==
    SelectSeq(NonEmpty(StripAll(Split(b, "\n"))), LAMBDA ln : ~IsBoilerplateLine(ln))

\* the block of case A made of the lines of one paragraph
BlockOfLines(lines) ==
    IF lines = <<>> THEN <<>>
    ELSE IF Len(lines) = 1 /\ LooksLikeHeading(lines[1]) THEN <<lines[1]>>
    ELSE <<Join(lines, " ")>>

\* case A of _to_blocks: the loop over the blank-line separated blocks
RECURSIVE ParagraphBlocks(_)
ParagraphBlocks(raw_blocks) ==
    IF raw_blocks = <<>> THEN <<>>
    ELSE BlockOfLines(CleanLines(raw_blocks[1])) \o ParagraphBlocks(Tail(raw_blocks))

\* the inner flush() of _to_blocks
FlushLines(blocks, current) ==
    IF current # <<>> THEN Append(blocks, Strip(Join(current, " "))) ELSE blocks

\* case B of _to_blocks: the loop over the lines, with its final flush()
RECURSIVE GroupLines(_, _, _)
GroupLines(lines, blocks, current) ==
    IF lines = <<>> THEN FlushLines(blocks, current)
    ELSE IF LooksLikeHeading(lines[1]) /\ Len(lines[1]) <= 120
    THEN GroupLines(Tail(lines), Append(FlushLines(blocks, current), lines[1]), <<>>)
    ELSE IF SumLen(Append(current, lines[1])) >= 300
    THEN GroupLines(Tail(lines), FlushLines(blocks, Append(current, lines[1])), <<>>)
    ELSE GroupLines(Tail(lines), blocks, Append(current, lines[1]))

\* case B of _to_blocks, from the cleaned lines on
BlocksOfLines(lines) == IF lines = <<>> THEN <<>> ELSE GroupLines(lines, <<>>, <<>>)

\* _to_blocks on the stripped text
BlocksOfText(text) ==
    IF text = "" THEN <<>>
    ELSE IF Contains(text, "\n\n")
    THEN ParagraphBlocks(NonEmpty(StripAll(Split(text, "\n\n"))))
    ELSE BlocksOfLines(CleanLines(text))

\* ChunkerService._to_blocks
ToBlocks(text) == BlocksOfText(Strip(text))

\* the loop of ChunkerService._merge_tiny_blocks, with the final append
RECURSIVE MergeLoop(_, _, _)
MergeLoop(blocks, merged, buf) ==
    IF blocks = <<>> THEN (IF buf # "" THEN Append(merged, buf) ELSE merged)
    ELSE IF buf = "" THEN MergeLoop(Tail(blocks), merged, blocks[1])
    ELSE IF Len(buf) < min_chars
    THEN MergeLoop(Tail(blocks), merged, buf \o "\n\n" \o blocks[1])
    ELSE MergeLoop(Tail(blocks), Append(merged, buf), blocks[1])

\* no merging: the blocks as they are
KeepBlocks(blocks) == blocks

\* ChunkerService._merge_tiny_blocks
MergeTinyBlocks(blocks) == MergeLoop(blocks, <<>>, "")

SentenceEnd == {".", "!", "?"}

\* re.split(r"(?<=[\.\!\?])\s+", block)
RECURSIVE SentenceSplit(_)
\* the split of s at i, the first white space after a sentence end (0: none)
SentenceSplitAt(s, i) ==
    IF i = 0 THEN <<s>>
    ELSE <<SubSeq(s, 1, i - 1)>> \o SentenceSplit(From(s, FirstNonSpace(s, i)))

SentenceSplit(s) ==
    SentenceSplitAt(s, MinOrZero({i \in 2..Len(s) : IsSpace(Ch(s, i)) /\ Ch(s, i - 1) \in SentenceEnd}))

\* the packing loop of _split_large_block, with the final append
RECURSIVE PackPieces(_, _, _)
PackPieces(parts, pieces, cur) ==
    IF parts = <<>> THEN (IF cur # "" THEN Append(pieces, Strip(cur)) ELSE pieces)
    ELSE IF parts[1] = "" THEN PackPieces(Tail(parts), pieces, cur)
    ELSE IF Len(cur) + Len(parts[1]) + 1 <= max_chars
    THEN PackPieces(Tail(parts), pieces, Strip(cur \o " " \o parts[1]))
    ELSE PackPieces(Tail(parts),
                    IF cur # "" THEN Append(pieces, Strip(cur)) ELSE pieces,
                    Strip(parts[1]))

\* ChunkerService._split_large_block
SplitLargeBlock(block) == PackPieces(SentenceSplit(block), <<>>, "")

\* f"{doc_id}#chunk{idx}"
ChunkId(doc_id, idx) == doc_id \o "#chunk" \o ToString(idx)

\* an emission that leaves idx as it is
EmitSameIdx(st, doc_id, chunk_text) ==
    IF chunk_text # ""
    THEN [st EXCEPT !.chunks = Append(@, <<ChunkId(doc_id, st.idx), chunk_text>>)]
    ELSE st

\* chunks.append((chunk_id, chunk_text)); idx += 1, when chunk_text is not empty
Emit(st, doc_id, chunk_text) ==
    IF chunk_text # ""
    THEN [st EXCEPT !.chunks = Append(@, <<ChunkId(doc_id, st.idx), chunk_text>>),
                    !.idx = @ + 1]
    ELSE st

\* the inner flush() of chunk: st is the loop's state
\* [chunks, current_blocks, current_len, idx, err]
Flush(st, doc_id) ==
    IF st.current_blocks = <<>> THEN st
    ELSE Emit(st, doc_id, Strip(Join(st.current_blocks, "\n\n")))

\* prev_blocks[-self.overlap_blocks:]
LastBlocks(prev_blocks, n) ==
    SubSeq(prev_blocks, Max({1, Len(prev_blocks) - n + 1}), Len(prev_blocks))

\* current_blocks = carry[:]; current_len = sum(len(x) for x in carry) + 2 * max(0, len(carry) - 1)
Seed(st, carry) ==
    [st EXCEPT !.current_blocks = carry,
               !.current_len = SumLen(carry) + 2 * Max({0, Len(carry) - 1})]

\* the overlap carry that follows each flush() inside the loop
Carry(st) ==
    IF overlap_blocks > 0 /\ st.chunks # <<>>
    THEN Seed(st, LastBlocks(Split(st.chunks[Len(st.chunks)][2], "\n\n"), overlap_blocks))
    ELSE [st EXCEPT !.current_blocks = <<>>, !.current_len = 0]

\* if current_len > 0 and (current_len + blen + 2) > max_chars: flush() and carry
MakeRoom(st, b, doc_id) ==
    IF st.current_len > 0 /\ (st.current_len + Len(b) + 2) > max_chars
    THEN Carry(Flush(st, doc_id))
    ELSE st

\* current_blocks.append(b); current_len += blen + (2 if current_len > 0 else 0)
AppendBlock(st, b) ==
    [st EXCEPT !.current_blocks = Append(@, b),
               !.current_len = @ + Len(b) + (IF @ > 0 THEN 2 ELSE 0)]

\* if current_len >= target_chars and current_len >= min_chars: flush() and carry
FlushAtTarget(st, doc_id) ==
    IF st.current_len >= target_chars /\ st.current_len >= min_chars
    THEN Carry(Flush(st, doc_id))
    ELSE st

\* one iteration of the loop over the merged blocks. A block longer than
\* max_chars reaches self._append_block, which ChunkerService does not define:
\* the attribute lookup raises AttributeError for the first piece.
ChunkStep(st, b, doc_id) ==
    IF Len(b) > max_chars
    THEN IF SplitLargeBlock(b) # <<>> THEN [st EXCEPT !.err = "AttributeError"] ELSE st
    ELSE FlushAtTarget(AppendBlock(MakeRoom(st, b, doc_id), b), doc_id)

\* the loop over the merged blocks; an exception ends it
RECURSIVE ChunkLoop(_, _, _)
ChunkLoop(blocks, st, doc_id) ==
    IF blocks = <<>> \/ st.err # "" THEN st
    ELSE ChunkLoop(Tail(blocks), ChunkStep(st, blocks[1], doc_id), doc_id)

pronouns == <<"it ", "this ", "they ", "these ", "also ", "therefore ", "however ">>

\* t.lower().startswith(pronouns); lower() maps character by character, so
\* only the first characters are lowered
LowerStartsWithPronoun(t) ==
    \E p \in 1..Len(pronouns) : StartsWith(Lower(SubSeq(t, 1, Min({Len(t), 10}))), pronouns[p])

\* chunk_text.strip().lower().startswith(pronouns)
StartsWithPronoun(chunk_text) == LowerStartsWithPronoun(Strip(chunk_text))

\* parts[-1]
Last(parts) == parts[Len(parts)]

\* a pass that prepends the tail to every chunk that follows another
FixedTextAlways(prev_text, chunk_text) ==
    IF prev_text # ""
    THEN Strip(Strip(Last(Split(prev_text, "\n\n"))) \o "\n\n" \o chunk_text)
    ELSE chunk_text

\* the text _fix_pronoun_starts gives a chunk that follows prev_text
FixedText(prev_text, chunk_text) ==
    IF prev_text # "" /\ StartsWithPronoun(chunk_text)
    THEN Strip(Strip(Last(Split(prev_text, "\n\n"))) \o "\n\n" \o chunk_text)
    ELSE chunk_text

\* the loop of ChunkerService._fix_pronoun_starts
RECURSIVE FixLoop(_, _, _)
\* fixed.append((chunk_id, new_text)); prev_text = new_text
FixNext(chunks, fixed, new_text) ==
    FixLoop(Tail(chunks), Append(fixed, <<chunks[1][1], new_text>>), new_text)

FixLoop(chunks, fixed, prev_text) ==
    IF chunks = <<>> THEN fixed
    ELSE FixNext(chunks, fixed, FixedText(prev_text, chunks[1][2]))

\* ChunkerService._fix_pronoun_starts
FixPronounStarts(chunks) == FixLoop(chunks, <<>>, "")

\* the loop state chunk starts from
EmptyLoopState ==
    [chunks |-> <<>>, current_blocks |-> <<>>, current_len |-> 0, idx |-> 0, err |-> ""]

NoChunks == [err |-> "", chunks |-> <<>>]

\* the end of chunk: the final flush() and the pronoun pass, unless the loop raised
ChunkResult(st, doc_id) ==
    IF st.err # "" THEN [err |-> st.err, chunks |-> <<>>]
    ELSE [err |-> "", chunks |-> FixPronounStarts(Flush(st, doc_id).chunks)]

\* chunk from the blocks on
ChunkBlocks(doc_id, blocks) ==
    IF blocks = <<>> THEN NoChunks
    ELSE ChunkResult(ChunkLoop(MergeTinyBlocks(blocks), EmptyLoopState, doc_id), doc_id)

\* the normalised text as one chunk, whatever it holds
WholeTextChunk(doc_id, text) == [err |-> "", chunks |-> <<<<ChunkId(doc_id, 0), text>>>>]

\* chunk from the normalised text on
ChunkText(doc_id, text) ==
    IF text = "" THEN NoChunks ELSE ChunkBlocks(doc_id, ToBlocks(text))

\* ChunkerService.chunk: [err |-> the exception raised or "", chunks |-> the
\* returned sequence of <<chunk_id, chunk_text>>]
Chunk(doc_id, text0) == ChunkText(doc_id, Normalize(text0))

(***************************************************************************)
(* Embedding port (st_embedder.py).  STEmbedder.embed is a fixed function  *)
(* from text to a vector of fixed dimension, computed by an external       *)
(* model, normalised and so never the zero vector.  Here it maps a text to *)
(* one of a few 2-dimensional integer vectors of integer norm, by the      *)
(* topic words the text mentions.                                          *)
(***************************************************************************)

\* STEmbedder.embed
TopicVector(cats, dogs) ==
    IF cats /\ dogs THEN <<4, 3>>
    ELSE IF cats THEN <<1, 0>>
    ELSE IF dogs THEN <<0, 1>>
    ELSE <<3, 4>>

Embed(text) ==
    TopicVector(Contains(text, "cats") \/ Contains(text, "mice"),
                Contains(text, "dogs") \/ Contains(text, "rodents"))

(***************************************************************************)
(* The inputs of the model                                                 *)
(***************************************************************************)

\* the greatest k of a search or ask request
MaxK == 2

\* the most interactions the history store holds
MaxHistory == 1

\* s repeated n times
RECURSIVE Rep(_, _)
Rep(s, n) == IF n = 0 THEN "" ELSE s \o Rep(s, n - 1)

DocIds == {"d1", "d2"}

BlankText == "  \n "

CatsText == "Cats chase mice. Mice are small rodents."

DogsText == "Our dogs bark at night."

\* three paragraphs of about 200 characters
LongText ==
    Rep("The cats nap in the sun. ", 8) \o "\n\n" \o
    Rep("Most dogs like long walks. ", 8) \o "\n\n" \o
    Rep("Rain fell over the hills. ", 8)

\* one paragraph longer than max_chars
HugeText == Rep("Moles dig long tunnels. ", 32)

Texts == {BlankText, CatsText, DogsText, LongText, HugeText}

\* the item lists of an index request
ItemLists ==
    {<< <<"d1", t>> >> : t \in Texts \ {DogsText}}
        \cup {<< <<"d1", CatsText>>, <<"d2", DogsText>> >>}

Queries == {"", "what do cats chase"}

Ks == 0..MaxK

\* the default k of GET /search
DefaultK == 5

\* the k of a RAGService.search request
SearchKs == Ks \cup {DefaultK}

\* the query vectors of a direct DenseVectorStore.search
QueryVecs == {<<0, 1>>, <<3, 4>>, <<0, 0>>}

(***************************************************************************)
(* WebLoaderService.fetch (web_loader.py).  A page is what the network     *)
(* and the two libraries give for a URL:                                   *)
(*   fails      the download raises (httpx, raise_for_status)              *)
(*   title      meta.title of trafilatura.extract_metadata: NoneVal or a   *)
(*              text                                                       *)
(*   extracted  what trafilatura.extract returns: NoneVal or a text        *)
(*   raw        base.get_text(separator="\n") of the BeautifulSoup         *)
(*              fallback, the boilerplate tags removed                     *)
(*   tag_title  soup.title.string: NoneVal or a text                       *)
(***************************************************************************)

\* Python's None where a text may stand
NoneVal == "<None>"

\* the shortest extraction fetch accepts
min_extracted == 200

\* a line has to be longer than this for the fallback to keep it
micro_line == 2

\* a line has to be this long for the fallback to keep it when it holds a
\* boilerplate phrase
boilerplate_len == 80

\* the phrases of the fallback's boilerplate lines
BoilerplatePhrases == {"cookie", "privacy", "terms", "sign in", "log in"}

Page(fails, title, extracted, raw, tag_title) ==
    [fails |-> fails, title |-> title, extracted |-> extracted, raw |-> raw,
     tag_title |-> tag_title]

\* step 2 of fetch: meta.title.strip() or None, when meta and meta.title
MetaTitle(page) ==
    IF page.title = NoneVal \/ Strip(page.title) = "" THEN NoneVal ELSE Strip(page.title)

\* step 3 of fetch: (extracted or "").strip()
MainText(page) == IF page.extracted = NoneVal THEN "" ELSE Strip(page.extracted)

\* the index of the last character of s[1..i] that is no blank or tab
RECURSIVE LastNonBlank(_, _)
LastNonBlank(s, i) ==
    IF i = 0 \/ Ch(s, i) \notin {" ", "\t"} THEN i ELSE LastNonBlank(s, i - 1)

\* the pieces between line breaks, the blanks and tabs at the end of each
\* but the last removed
WithoutBlanksAtEnd(parts) ==
    [i \in 1..Len(parts) |->
        IF i = Len(parts) THEN parts[i]
        ELSE SubSeq(parts[i], 1, LastNonBlank(parts[i], Len(parts[i])))]

\* re.sub(r"[ \t]+\n", "\n", raw): the blanks and tabs before a line break go
DropBlanksBeforeBreaks(raw) == Join(WithoutBlanksAtEnd(Split(raw, "\n")), "\n")

\* the fallback's line to text conversion of get_text's result
RawLines(raw) ==
    Split(CollapseBlankLines(
              DropBlanksBeforeBreaks(Replace(Replace(raw, "\r\n", "\n"), "\r", "\n"))),
          "\n")

\* any(p in low for p in [...]) and len(s) < 80, s a stripped line
IsBoilerplate(s) ==
    /\ Len(s) < boilerplate_len
    /\ \E p \in BoilerplatePhrases : Contains(Lower(s), p)

\* the loop's choice for a stripped line s: a blank line stays (as ""), a
\* line of at most 2 characters and a boilerplate line go
KeepsLine(s) == s = "" \/ (Len(s) > micro_line /\ ~IsBoilerplate(s))

\* the loop over raw.split("\n"): the stripped lines it keeps
KeptLines(lines) == SelectSeq(StripAll(lines), KeepsLine)

\* step 4 of fetch, the text: cleaned
FallbackText(page) == Strip(CollapseBlankLines(Join(KeptLines(RawLines(page.raw)), "\n")))

\* step 4 of fetch, the title: t.strip() if t else None, when step 2 left none
FallbackTitle(page) ==
    IF MetaTitle(page) # NoneVal THEN MetaTitle(page)
    ELSE IF page.tag_title = NoneVal \/ page.tag_title = "" THEN NoneVal
    ELSE Strip(page.tag_title)

\* the text of fetch before its guard: trafilatura's, or the fallback's
\* when that is empty
ExtractedText(page) ==
    IF MainText(page) # "" THEN MainText(page) ELSE FallbackText(page)

\* the title of fetch: the fallback runs only when trafilatura's text is empty
ExtractedTitle(page) ==
    IF MainText(page) # "" THEN MetaTitle(page) ELSE FallbackTitle(page)

\* the guard of fetch and its return
Guarded(title, text) ==
    IF text = "" \/ Len(text) < min_extracted
    THEN [raised |-> "ValueError", title |-> NoneVal, text |-> ""]
    ELSE [raised |-> "", title |-> title, text |-> text]

\* WebLoaderService.fetch: [raised, title, text]
Fetch(page) ==
    IF page.fails THEN [raised |-> "HTTPError", title |-> NoneVal, text |-> ""]
    ELSE Guarded(ExtractedTitle(page), ExtractedText(page))

\* n lines, each the text line and a line break
Lines(line, n) == Join([i \in 1..n |-> line \o "\n"], "")

\* a line of 99 characters
Line99 ==
    "Cats sleep through most of the day and wake at dusk to walk the garden wall and watch the old barn."

\* the pages a URL may give
FailedPage == Page(TRUE, NoneVal, NoneVal, "", NoneVal)

EmptyPage == Page(FALSE, NoneVal, NoneVal, "", NoneVal)

ShortPage == Page(FALSE, "Cats", CatsText \o " ", LongText, "Cats")

MainPage == Page(FALSE, " Naps ", LongText \o "\n", "", "Naps | Example")

UntitledPage == Page(FALSE, "", HugeText, "", "Moles")

FallbackPage == Page(FALSE, "", NoneVal, " " \o LongText, " Naps ")

NoisyPage ==
    Page(FALSE, NoneVal, "  ",
         "Sign in\r\nok\r \t\n\n\n" \o LongText \o "\n\n\n\nPrivacy and Terms\n", "  ")

MicroPage == Page(FALSE, NoneVal, "", Lines("ok", 80) \o "real text", NoneVal)

CookiePage == Page(FALSE, NoneVal, "", Lines("Accept cookies", 20), "Cookies")

EdgePage == Page(FALSE, "Cats", "", Line99 \o " \n" \o Line99, "Cats")

Pages ==
    {FailedPage, EmptyPage, ShortPage, MainPage, UntitledPage, FallbackPage, NoisyPage,
     MicroPage, CookiePage, EdgePage}

\* fetch and its text before the guard on each page, computed once
FetchTable ==
    [page \in Pages |->
        [fetch |-> Fetch(page),
         text  |-> IF page.fails THEN "" ELSE ExtractedText(page)]]

\* loader.fetch(url), the URL giving page
Fetched(page) == FetchTable[page].fetch

\* the texts fetch returns
FetchedTexts == {Fetched(page).text : page \in {q \in Pages : Fetched(q).raised = ""}}

(***************************************************************************)
(* The chunker's and the embedder's results on the model's inputs, each    *)
(* computed once                                                           *)
(***************************************************************************)

\* table[x], or value where the table has no x
Lookup(table, x, value) == IF x \in DOMAIN table THEN table[x] ELSE value

\* the pages a client asks to ingest
Urls == {"https://example.com/cats", "https://example.com/moles"}

\* hashlib.sha1(url.encode("utf-8")).hexdigest()[:16]
DocIdOfUrl(url) ==
    CASE url = "https://example.com/cats" -> "f94920d3e5f3cf9a"
      [] url = "https://example.com/moles" -> "8b0abf88d67b2779"

ChunkTable ==
    [x \in {<<d, Strip(t)>> : d \in DocIds, t \in Texts}
            \cup {<<DocIdOfUrl(u), t>> : u \in Urls, t \in FetchedTexts} |->
        Chunk(x[1], x[2])]

\* self.chunker.chunk(doc_id, full_text)
ChunkOf(doc_id, text) == Lookup(ChunkTable, <<doc_id, text>>, Chunk(doc_id, text))

\* the texts of a sequence of <<chunk_id, chunk_text>>
ChunkTexts(chunks) == {chunks[i][2] : i \in 1..Len(chunks)}

TextsOf(table) == UNION {ChunkTexts(table[x].chunks) : x \in DOMAIN table}

EmbedTexts == Queries \cup TextsOf(ChunkTable)

EmbedTable == [t \in EmbedTexts |-> Embed(t)]

\* self.embedder.embed(text)
EmbedOf(text) == Lookup(EmbedTable, text, Embed(text))

(***************************************************************************)
(* DenseVectorStore (vector_store_dense.py).  A score is a fixed-point     *)
(* number: the cosine times ScoreScale.                                    *)
(***************************************************************************)

ScoreScale == 100

\* np.dot(a, b)
RECURSIVE Dot(_, _)
Dot(a, b) == IF a = <<>> THEN 0 ELSE a[1] * b[1] + Dot(Tail(a), Tail(b))

\* the integer square root
ISqrt(n) == CHOOSE r \in 0..n : r * r <= n /\ (r + 1) * (r + 1) > n

\* np.linalg.norm(a), exact on the vectors of integer norm
Norm(a) == ISqrt(Dot(a, a))

\* float(np.dot(a, b) / denom) if denom else 0.0
Ratio(dot, denom) == IF denom = 0 THEN 0 ELSE (ScoreScale * dot) \div denom

\* _cosine
Cosine(a, b) ==
    IF Len(a) = 0 \/ Len(b) = 0 THEN 0 ELSE Ratio(Dot(a, b), Norm(a) * Norm(b))

\* DenseVectorStore.__init__: _docs, a dict in insertion order, as the
\* sequence of its items [id, text, vec]
EmptyDocs == <<>>

\* a store that keeps a list of entries and appends to it on every add
DenseAddAppends(docs, doc_id, text, vector) ==
    Append(docs, [id |-> doc_id, text |-> text, vec |-> vector])

\* DenseVectorStore.add: self._docs[doc_id] = (text, vector); a key already
\* present keeps its place in the dict's order
DenseAdd(docs, doc_id, text, vector) ==
    LET new == [id |-> doc_id, text |-> text, vec |-> vector]
        at  == {i \in 1..Len(docs) : docs[i].id = doc_id}
    IN  IF at = {} THEN Append(docs, new)
        ELSE [docs EXCEPT ![Min(at)] = new]

\* a sort that is not stable: x goes ahead of the elements of its own score
InsertDescUnstable(sorted, x) ==
    LET ahead == {i \in 1..Len(sorted) : sorted[i][2] > x[2]}
        n     == IF ahead = {} THEN 0 ELSE Max(ahead)
    IN  SubSeq(sorted, 1, n) \o <<x>> \o SubSeq(sorted, n + 1, Len(sorted))

\* one step of list.sort(key=lambda x: x[1], reverse=True): x goes behind
\* every element whose score is at least its own (the sort is stable)
InsertDesc(sorted, x) ==
    LET ahead == {i \in 1..Len(sorted) : sorted[i][2] >= x[2]}
        n     == IF ahead = {} THEN 0 ELSE Max(ahead)
    IN  SubSeq(sorted, 1, n) \o <<x>> \o SubSeq(sorted, n + 1, Len(sorted))

\* results.sort(key=lambda x: x[1], reverse=True)
RECURSIVE SortDesc(_, _)
SortDesc(results, sorted) ==
    IF results = <<>> THEN sorted
    ELSE SortDesc(Tail(results), InsertDesc(sorted, results[1]))

\* seq[:k]
Slice(seq, k) ==
    IF k >= 0 THEN SubSeq(seq, 1, Min({k, Len(seq)}))
    ELSE SubSeq(seq, 1, Max({0, Len(seq) + k}))

\* the body of the loop of search: the result of an item of self._docs
Scored(entry, query_vec) == <<entry.id, Cosine(query_vec, entry.vec), entry.text>>

\* the results of the loop of search over the items held, none of them
\* written while the loop runs
ScoredAll(held, query_vec) == [i \in 1..Len(held) |-> Scored(held[i], query_vec)]

\* results.sort(key=lambda x: x[1], reverse=True); return results[:k]
SortedSlice(results, k) == Slice(SortDesc(results, <<>>), k)

\* DenseVectorStore.search(query_vec, k) on a store that no other thread
\* writes to while the search runs
DenseSearch(held, query_vec, k) == SortedSlice(ScoredAll(held, query_vec), k)

\* One step of the iterator of self._docs.items(), made when the dict had
\* size items, after it gave the results so far: the dict has changed size
\* ("raised"), or it has no more items and search returns ("returned"), or
\* the loop body runs on the next item as the dict now holds it ("reading")
SearchStep(held, query_vec, k, results, size) ==
    IF Len(held) # size
    THEN [at |-> "raised", raised |-> "RuntimeError", results |-> results, hits |-> <<>>]
    ELSE IF Len(results) >= Len(held)
    THEN [at |-> "returned", raised |-> "", results |-> results, hits |-> SortedSlice(results, k)]
    ELSE [at |-> "reading", raised |-> "",
          results |-> Append(results, Scored(held[Len(results) + 1], query_vec)),
          hits |-> <<>>]

(***************************************************************************)
(* QdrantVectorStore (vector_store_qdrant.py).  The collection of the      *)
(* external service is a set of points [id, vector, payload], at most one  *)
(* per id; the service answers a query with the limit points of highest    *)
(* cosine score, in an order of its own among equal scores.                *)
(***************************************************************************)

\* QdrantVectorStore._point_id: uuid5 of the key, a fixed injective function
\* of the key, modelled by the key itself
PointId(doc_id, chunk_id) == doc_id \o ":" \o chunk_id

\* the collection _ensure_collection finds or creates
\* a Qdrant server that holds no point
EmptyPoints == {}

\* QdrantVectorStore._ensure_collection on a server that holds the points
\* held if the collection is found there: a collection that exists is left
\* as it is, one that does not is created empty
EnsureCollection(found, held) == IF found THEN held ELSE EmptyPoints

\* self.client.upsert(points=Batch(ids, vectors, payloads)): each point of
\* the batch replaces the stored point of the same id, a later one of the
\* batch an earlier one
RECURSIVE ClientUpsert(_, _)
ClientUpsert(points, batch) ==
    IF batch = <<>> THEN points
    ELSE ClientUpsert({p \in points : p.id # batch[1].id} \cup {batch[1]}, Tail(batch))

\* QdrantVectorStore.index_many: [points |-> the collection afterwards,
\* ret |-> the value returned]
QdrantIndexMany(points, items) ==
    LET batch == [i \in 1..Len(items) |->
                     [id      |-> PointId(items[i][1], items[i][2]),
                      vector  |-> EmbedOf(items[i][3]),
                      payload |-> [doc_id   |-> items[i][1],
                                   chunk_id |-> items[i][2],
                                   text     |-> items[i][3]]]]
    IN  [points |-> ClientUpsert(points, batch), ret |-> Len(items)]

\* the sequences of n distinct elements of S
RECURSIVE Arrangements(_, _)
Arrangements(S, n) ==
    IF n = 0 THEN {<<>>}
    ELSE UNION {{<<x>> \o r : r \in Arrangements(S \ {x}, n - 1)} : x \in S}

\* the points with their cosine scores against the query vector
ScoredPoints(points, qv) ==
    {[id |-> p.id, score |-> Cosine(qv, p.vector), payload |-> p.payload] : p \in points}

\* r lists n of the scored points by non-increasing score, and no point left
\* out scores higher than the last one listed
Ranked(scored, r, n) ==
    /\ \A i \in 1..(n - 1) : r[i].score >= r[i + 1].score
    /\ \A p \in scored : (\A i \in 1..n : r[i] # p) => (n = 0 \/ p.score <= r[n].score)

TopRankings(scored, n) == {r \in Arrangements(scored, n) : Ranked(scored, r, n)}

\* self.client.search(query_vector=qv, limit=k): the answers the service may
\* give, each a sequence of scored points
ClientSearch(points, qv, limit) ==
    TopRankings(ScoredPoints(points, qv), Min({Max({limit, 0}), Cardinality(points)}))

\* QdrantVectorStore.search: the result lists it may return
QdrantSearch(points, query, k) ==
    {[i \in 1..Len(hits) |->
         <<hits[i].payload.doc_id, hits[i].score, hits[i].payload.text>>] :
        hits \in ClientSearch(points, EmbedOf(query), k)}

(***************************************************************************)
(* LLMClient (llm_client.py).  A response of the provider is a record      *)
(* [kind, message, content, response]:                                     *)
(*   kind      "none" (None), "dict" (a mapping) or "object" (a typed      *)
(*             response with attributes and model_dump())                  *)
(*   message   "absent" (no such key or attribute), "null" (None),         *)
(*             "present" (a mapping with a content key; for a typed        *)
(*             response, the typed message that model_dump() turns into    *)
(*             one) or "object" (an object with a content attribute held   *)
(*             by a mapping)                                               *)
(*   content   the message's content: NoneVal or a text                    *)
(*   response  "absent", or <<v>> with v NoneVal or a text                 *)
(***************************************************************************)


\* the attribute access of _extract_text: resp.message.content
AttrContent(resp) ==
    IF resp.kind = "object" /\ resp.message \in {"present", "object"}
    THEN resp.content ELSE NoneVal

\* the attribute access of _extract_text: resp.response
AttrResponse(resp) ==
    IF resp.kind = "object" /\ resp.response # "absent" THEN resp.response[1] ELSE NoneVal

\* str(v or "")
StrOrEmpty(v) == IF v = NoneVal THEN "" ELSE v

\* LLMClient._to_dict(resp) is empty: None, or no key at all
ToDictEmpty(resp) ==
    \/ resp.kind = "none"
    \/ resp.message = "absent" /\ resp.response = "absent"

\* the last branch of _extract_text: if "response" in d
FromResponseKey(resp) ==
    IF resp.response # "absent" THEN Strip(StrOrEmpty(resp.response[1])) ELSE ""

\* the branch of _extract_text on the "message" key: a mapping (None counts
\* as the empty mapping) answers by itself, an object-like message without
\* content leaves the answer to the "response" key
FromMessageKey(resp) ==
    IF resp.message \in {"null", "present"}
    THEN Strip(StrOrEmpty(IF resp.message = "null" THEN NoneVal ELSE resp.content))
    ELSE IF resp.content # NoneVal THEN Strip(resp.content)
    ELSE FromResponseKey(resp)

\* LLMClient._extract_text
ExtractText(resp) ==
    IF AttrContent(resp) # NoneVal THEN Strip(AttrContent(resp))
    ELSE IF AttrResponse(resp) # NoneVal THEN Strip(AttrResponse(resp))
    ELSE IF ToDictEmpty(resp) THEN ""
    ELSE IF resp.message # "absent" THEN FromMessageKey(resp)
    ELSE FromResponseKey(resp)

\* f"[LLM error: {e}]"
LLMError(e) == "[LLM error: " \o e \o "]"

\* LLMClient.generate, given what the provider does on chat() and on
\* generate(): each [raises |-> the exception's message or "", resp |-> the
\* response].  [ret |-> the text returned, calls |-> the provider calls made]
\* generate after chat() returned a response of the text given
AfterChat(text, gen) ==
    IF text # "" THEN [ret |-> text, calls |-> <<"chat">>]
    ELSE IF gen.raises # ""
    THEN [ret |-> LLMError(gen.raises), calls |-> <<"chat", "generate">>]
    ELSE [ret |-> ExtractText(gen.resp), calls |-> <<"chat", "generate">>]

LLMGenerate(chat, gen) ==
    IF chat.raises # "" THEN [ret |-> LLMError(chat.raises), calls |-> <<"chat">>]
    ELSE AfterChat(ExtractText(chat.resp), gen)

(***************************************************************************)
(* RAGService (rag_service.py)                                             *)
(***************************************************************************)

\* chunk_items.append((doc_id, chunk_id, chunk_text)) for each pair
ItemsOfPairs(doc_id, pairs) ==
    [i \in 1..Len(pairs) |-> <<doc_id, pairs[i][1], pairs[i][2]>>]

\* the chunking loop of RAGService.index: [err, chunk_items], chunk_items a
\* sequence of <<doc_id, chunk_id, chunk_text>>
RECURSIVE ChunkItems(_, _, _)
\* the loop from the chunker's result r for the first item on
ChunkPairs(items, has_chunker, acc, r) ==
    IF r.err # "" THEN [err |-> r.err, chunk_items |-> <<>>]
    ELSE ChunkItems(Tail(items), has_chunker, acc \o ItemsOfPairs(items[1][1], r.chunks))

\* one iteration, full_text being the stripped text of the first item
ChunkDoc(items, has_chunker, acc, doc_id, full_text) ==
    IF full_text = "" THEN ChunkItems(Tail(items), has_chunker, acc)
    ELSE IF ~has_chunker
    THEN ChunkItems(Tail(items), has_chunker,
                    Append(acc, <<doc_id, ChunkId(doc_id, 0), full_text>>))
    ELSE ChunkPairs(items, has_chunker, acc, ChunkOf(doc_id, full_text))

ChunkItems(items, has_chunker, acc) ==
    IF items = <<>> THEN [err |-> "", chunk_items |-> acc]
    ELSE ChunkDoc(items, has_chunker, acc, items[1][1], Strip(items[1][2]))

\* the dense branch of RAGService.index (lines 128-130)
RECURSIVE DenseAddAll(_, _)
DenseAddAll(docs, chunk_items) ==
    IF chunk_items = <<>> THEN docs
    ELSE DenseAddAll(DenseAdd(docs, chunk_items[1][2], chunk_items[1][3],
                              EmbedOf(chunk_items[1][3])),
                     Tail(chunk_items))

\* MongoDocumentStore.upsert_documents on (doc_id, text) tuples: one stored
\* text per _id
RECURSIVE UpsertDocuments(_, _)
UpsertDocuments(stored, items) ==
    IF items = <<>> THEN stored
    ELSE UpsertDocuments({d \in stored : d[1] # items[1][1]} \cup {items[1]}, Tail(items))

\* step 1 of RAGService.index: the full documents go to the document store
StoreDocuments(svc, st, items) ==
    IF svc.mongo THEN [st EXCEPT !.doc_store = UpsertDocuments(@, items)] ELSE st

\* step 3 of RAGService.index, one access to the vector index at a time: the
\* vector index [docs, points] after the next write of the chunk items left.
\* The qdrant branch embeds every chunk and sends one upsert (line 125), the
\* dense branch embeds one chunk and adds it (one iteration of lines 128-130)
IndexWritten(svc, index, left) ==
    IF svc.backend = "qdrant"
    THEN [index EXCEPT !.points = QdrantIndexMany(@, left).points]
    ELSE [index EXCEPT !.docs = DenseAdd(@, left[1][2], left[1][3], EmbedOf(left[1][3]))]

\* the chunk items left to write after that
LeftAfterWrite(svc, left) == IF svc.backend = "qdrant" THEN <<>> ELSE Tail(left)

\* what RAGService.index returns after its last write, n being
\* len(chunk_items) and left the chunk items of that write
IndexReturns(svc, points, left, n) ==
    IF svc.backend = "qdrant" THEN QdrantIndexMany(points, left).ret ELSE n

\* the parameters of DenseVectorStore.search besides self
DenseSearchParams == {"query_vec", "k"}

\* the keywords RAGService.search passes to self.store.search
SearchKeywords == {"k", "embed_func"}

\* RAGService.search: the outcomes [raised, hits] it may have.  On the dense
\* backend the call passes embed_func, which DenseVectorStore.search does not
\* take: Python raises TypeError before the body runs.
RagSearch(svc, st, query, k) ==
    IF svc.backend = "qdrant"
    THEN {[raised |-> "", hits |-> h] : h \in QdrantSearch(st.points, query, k)}
    ELSE IF SearchKeywords \subseteq DenseSearchParams
    THEN {[raised |-> "", hits |-> DenseSearch(st.docs, EmbedOf(query), k)]}
    ELSE {[raised |-> "TypeError", hits |-> <<>>]}

NotConfiguredAnswer ==
    "LLM is not configured. Enable Ollama by setting USE_OLLAMA=true and OLLAMA_MODEL / OLLAMA_HOST (or set use_ollama in Settings)."

NoHitsAnswer == "I couldn't find any relevant information in the knowledge base."

DontKnowAnswer == "I don't know."

\* the "sources" of an ask result
Sources(hits) ==
    [i \in 1..Len(hits) |-> [id |-> hits[i][1], score |-> hits[i][2], text |-> hits[i][3]]]

\* an outcome of RAGService.ask that returns
AskReturns(question, answer, sources, trace, logged) ==
    [raised |-> "",
     ret    |-> [question |-> question, answer |-> answer, sources |-> sources],
     trace  |-> trace,
     logged |-> logged]

\* RAGService.ask when self.search raises: the exception propagates
AskRaises(question, raised) ==
    [raised |-> raised,
     ret    |-> [question |-> question, answer |-> "", sources |-> <<>>],
     trace  |-> <<"search">>,
     logged |-> <<>>]

\* self.history_store.log_interaction(question, answer_text, hits), if configured
Interaction(svc, question, answer_text, hits) ==
    IF svc.mongo /\ Strip(answer_text) # ""
    THEN <<[question |-> question, answer |-> answer_text, sources |-> Sources(hits)]>>
    ELSE <<>>

\* if not answer_text: answer_text = "I don't know."
AnswerOrDontKnow(answer_text) == IF answer_text = "" THEN DontKnowAnswer ELSE answer_text

\* RAGService.ask from the final answer_text on
Answered(svc, question, hits, answer_text) ==
    AskReturns(question, answer_text, Sources(hits), <<"search", "llm.generate">>,
               Interaction(svc, question, answer_text, hits))

\* where RAGService.ask stands before line 197: it has returned or raised
\* (out is the outcome), or it is about to call the LLM with the hits found
AskEnded(out) == [at |-> "ready", out |-> out, hits |-> <<>>]

AskGoesOn(hits) == [at |-> "asking", out |-> AskRaises("", ""), hits |-> hits]

\* an ask that calls the LLM whatever the search returned
AfterSearchWithoutHitCheck(question, s) ==
    IF s.raised # "" THEN AskEnded(AskRaises(question, s.raised))
    ELSE AskGoesOn(s.hits)

\* RAGService.ask from line 167 to line 174, s being the outcome of self.search
AfterSearch(question, s) ==
    IF s.raised # "" THEN AskEnded(AskRaises(question, s.raised))
    ELSE IF s.hits = <<>>
    THEN AskEnded(AskReturns(question, NoHitsAnswer, <<>>, <<"search">>, <<>>))
    ELSE AskGoesOn(s.hits)

\* an ask without the check of self.llm
AskSearchesFirst(svc, st, question, k) ==
    {AfterSearch(question, s) : s \in RagSearch(svc, st, question, k)}

\* RAGService.ask up to its call of the LLM (lines 152-174): where it may
\* stand then
AskBegun(svc, st, question, k) ==
    IF ~svc.llm
    THEN {AskEnded(AskReturns(question, NotConfiguredAnswer, <<>>, <<>>, <<>>))}
    ELSE {AfterSearch(question, s) : s \in RagSearch(svc, st, question, k)}

\* what the provider may do on a call
Returns(resp) == [raises |-> "", resp |-> resp]

NoResponse == [kind |-> "none", message |-> "absent", content |-> NoneVal, response |-> "absent"]

TextResponse ==
    [kind |-> "object", message |-> "present", content |-> "Mice. [1]", response |-> "absent"]

BlankResponse ==
    [kind |-> "object", message |-> "present", content |-> "  ", response |-> "absent"]

GenerateResponse ==
    [kind |-> "dict", message |-> "absent", content |-> NoneVal, response |-> <<"Mice. [1] ">>]

NullResponse ==
    [kind |-> "dict", message |-> "null", content |-> NoneVal, response |-> <<NoneVal>>]

Refused == [raises |-> "connection refused", resp |-> NoResponse]

\* what the provider may do on chat() and, if LLMClient falls back to it, on
\* generate()
Providers ==
    { [chat |-> Returns(TextResponse),  gen |-> Returns(NoResponse)],
      [chat |-> Refused,                gen |-> Returns(NoResponse)],
      [chat |-> Returns(BlankResponse), gen |-> Returns(GenerateResponse)],
      [chat |-> Returns(NullResponse),  gen |-> Returns(BlankResponse)],
      [chat |-> Returns(NoResponse),    gen |-> Returns(NoResponse)],
      [chat |-> Returns(NoResponse),    gen |-> Refused] }

(***************************************************************************)
(* The state machine: one RAGService and the clients that call it.  The     *)
(* handlers of main.py are sync functions, which FastAPI runs in the       *)
(* threads of a pool: a call in progress stands in inflight between its    *)
(* accesses to the stores, and the steps of other calls come in between.   *)
(***************************************************************************)

VARIABLES
    svc,        \* the service's configuration [backend, llm, mongo, chunker]
    docs,       \* DenseVectorStore._docs
    points,     \* the points of the Qdrant collection
    doc_store,  \* the documents of MongoDocumentStore, <<doc_id, text>>
    history,    \* the number of interactions MongoInteractionStore holds
    inflight,   \* the calls in progress: where each is, what it has yet to do
    rag_service, \* the module global _rag_service of main.py
    built,      \* how many times RAGService.build has run
    result      \* the outcome of the call the last step ended, NoCall if none

vars == <<svc, docs, points, doc_store, history, inflight, rag_service, built, result>>

\* the stores RAGService.index writes
Stores == [docs |-> docs, points |-> points, doc_store |-> doc_store]

\* the vector index: the dense store of the process and the Qdrant collection
VectorIndex == [docs |-> docs, points |-> points]

\* RAGService.build: the backend by use_qdrant, the LLM client by use_ollama,
\* the Mongo stores by use_mongo, always a chunker
Services ==
    [backend : {"dense", "qdrant"}, llm : BOOLEAN, mongo : BOOLEAN, chunker : {TRUE}]

\* the outcome of the call that the last step ended: the operation, its
\* arguments, the exception raised ("" if none), the value returned, the
\* calls made to the search and LLM ports, and what the provider did if
\* LLMClient.generate was called
Outcome(op, args, raised, ret, trace, llm) ==
    [op |-> op, args |-> args, raised |-> raised, ret |-> ret, trace |-> trace, llm |-> llm]

NoCall == Outcome("none", <<>>, "", 0, <<>>, <<>>)

\* the clients whose calls may run at once, each in a thread of the pool
Clients == {"A", "B"}

\* a call in progress: where it stands, its arguments, what it holds for its
\* next steps (the chunk items left to write, the hits of the search of an
\* ask, or the results so far of a search of the dense store), and
\* len(chunk_items), or for a search of the dense store the size of the dict
\* when its iterator was made
Call(at, args, left, n) == [at |-> at, args |-> args, left |-> left, n |-> n]

\* no call is in progress
NoCalls == EmptyBag

\* the calls in progress: inflight is their bag, since which client made a
\* call changes nothing of what the call does
Calling == BagToSet(inflight)

\* a client has no call in progress and can make one
ClientFree == BagCardinality(inflight) < Cardinality(Clients)

\* the documents of the request an earlier process served
EarlierItems == << <<"d1", CatsText>> >>

\* what the Qdrant and Mongo servers hold when the process starts: nothing
\* on a first start, and after a restart what an earlier process of the same
\* settings left there, here by index(EarlierItems) and no ask
Servers ==
    {[found |-> FALSE, points |-> EmptyPoints, doc_store |-> {}, history |-> 0],
     [found     |-> TRUE,
      points    |-> QdrantIndexMany(EmptyPoints,
                                    ChunkItems(EarlierItems, TRUE, <<>>).chunk_items).points,
      doc_store |-> UpsertDocuments({}, EarlierItems),
      history   |-> 0]}

\* RAGService.build on the servers given: a new DenseVectorStore is empty,
\* QdrantVectorStore.__init__ calls _ensure_collection, and the Mongo stores
\* hold what the server holds
Built(server) ==
    /\ docs = EmptyDocs
    /\ points = IF svc.backend = "qdrant"
                THEN EnsureCollection(server.found, server.points) ELSE EmptyPoints
    /\ doc_store = IF svc.mongo THEN server.doc_store ELSE {}
    /\ history = IF svc.mongo THEN server.history ELSE 0

Init ==
    /\ svc \in Services
    /\ \E server \in Servers : Built(server)
    /\ inflight = NoCalls
    /\ rag_service = 1
    /\ built = 1
    /\ result = NoCall

\* a call begins and ends in the same step, raising or returning
Answers(outcome) ==
    /\ result' = outcome
    /\ UNCHANGED inflight

\* a call begins and stays in progress: the step ends no call
Begins(call) ==
    /\ inflight' = inflight (+) SetToBag({call})
    /\ result' = NoCall

\* the call in progress goes on to where next stands: the step ends no call
GoesOn(call, next) ==
    /\ inflight' = (inflight (-) SetToBag({call})) (+) SetToBag({next})
    /\ result' = NoCall

\* the call in progress ends, raising or returning
Ends(call, outcome) ==
    /\ inflight' = inflight (-) SetToBag({call})
    /\ result' = outcome

\* RAGService.index from the chunking loop's result ch on, up to step 3
IndexChunked(items, ch) ==
    IF ch.err # "" THEN Answers(Outcome("index", items, ch.err, 0, <<>>, <<>>))
    ELSE IF ch.chunk_items = <<>> THEN Answers(Outcome("index", items, "", 0, <<>>, <<>>))
    ELSE Begins(Call("writing", items, ch.chunk_items, Len(ch.chunk_items)))

\* POST /index: rag.index(items) writes the documents to the document store
\* and chunks them (steps 1 and 2)
IndexCall(items) ==
    /\ ClientFree
    /\ doc_store' = StoreDocuments(svc, Stores, items).doc_store
    /\ IndexChunked(items, ChunkItems(items, svc.chunker, <<>>))
    /\ UNCHANGED <<rag_service, built, svc, docs, points, history>>

\* the next write of step 3 of an index call in progress; the call returns
\* after its last write
IndexWrite(call) ==
    /\ call.at = "writing"
    /\ \E w \in {IndexWritten(svc, VectorIndex, call.left)} :
          docs' = w.docs /\ points' = w.points
    /\ IF LeftAfterWrite(svc, call.left) = <<>>
       THEN Ends(call, Outcome("index", call.args, "",
                               IndexReturns(svc, points, call.left, call.n), <<>>, <<>>))
       ELSE GoesOn(call, [call EXCEPT !.left = Tail(@)])
    /\ UNCHANGED <<rag_service, built, svc, doc_store, history>>

\* GET /search: rag.search(q, k)
Search(query, k) ==
    /\ ClientFree
    /\ \E s \in RagSearch(svc, Stores, query, k) :
          Answers(Outcome("search", <<query, k>>, s.raised, s.hits, <<>>, <<>>))
    /\ UNCHANGED <<rag_service, built, svc, docs, points, doc_store, history>>

\* a direct call of the dense store, rag.store.search(query_vec, k), up to
\* its loop: results = [] and the iterator of self._docs.items() is made
StoreSearch(query_vec, k) ==
    /\ ClientFree
    /\ svc.backend = "dense"
    /\ Begins(Call("searching", <<query_vec, k>>, <<>>, Len(docs)))
    /\ UNCHANGED <<rag_service, built, svc, docs, points, doc_store, history>>

\* a search of the dense store in progress, r being the next step of its
\* iterator: the search raises, returns its hits, or goes on; the outcome
\* carries the results of the loop
StoreSearchStepped(call, r) ==
    IF r.at = "reading" THEN GoesOn(call, [call EXCEPT !.left = r.results])
    ELSE Ends(call, Outcome("store.search", call.args, r.raised, r.hits, r.results, <<>>))

\* the next step of a search of the dense store in progress; the threads of
\* the other calls run between two steps
StoreSearchNext(call) ==
    /\ call.at = "searching"
    /\ StoreSearchStepped(call, SearchStep(docs, call.args[1], call.args[2], call.left, call.n))
    /\ UNCHANGED <<rag_service, built, svc, docs, points, doc_store, history>>

\* GET /ask, a being where rag.ask(q, k) stands after its search
AskSearched(question, k, a) ==
    IF a.at = "ready"
    THEN Answers(Outcome("ask", <<question, k>>, a.out.raised, a.out.ret, a.out.trace, <<>>))
    ELSE Begins(Call("asking", <<question, k>>, a.hits, 0))

\* GET /ask: rag.ask(q, k) up to its call of the LLM
AskCall(question, k) ==
    /\ ClientFree
    /\ \E a \in AskBegun(svc, Stores, question, k) : AskSearched(question, k, a)
    /\ UNCHANGED <<rag_service, built, svc, docs, points, doc_store, history>>

\* an ask in progress from the return of self.llm.generate on, a being its
\* outcome: the interaction goes to the history store and the call returns
AskAnswered(call, chat, gen, a) ==
    /\ history + Len(a.logged) <= MaxHistory
    /\ history' = history + Len(a.logged)
    /\ Ends(call, Outcome("ask", call.args, a.raised, a.ret, a.trace,
                          <<[chat |-> chat, gen |-> gen]>>))

\* an ask in progress from line 197 on, the provider doing chat on chat() and
\* gen on generate()
AskReturn(call, chat, gen) ==
    /\ call.at = "asking"
    /\ AskAnswered(call, chat, gen,
                   Answered(svc, call.args[1], call.left,
                            AnswerOrDontKnow(Strip(LLMGenerate(chat, gen).ret))))
    /\ UNCHANGED <<rag_service, built, svc, docs, points, doc_store>>

Next ==
    \/ \E items \in ItemLists : IndexCall(items)
    \/ \E call \in Calling : IndexWrite(call)
    \/ \E query \in Queries, k \in SearchKs : Search(query, k)
    \/ \E query_vec \in QueryVecs, k \in Ks : StoreSearch(query_vec, k)
    \/ \E call \in Calling : StoreSearchNext(call)
    \/ \E question \in Queries, k \in 1..MaxK : AskCall(question, k)
    \/ \E call \in Calling, p \in Providers : AskReturn(call, p.chat, p.gen)

Spec == Init /\ [][Next]_vars

\* The HTTP calls that write or read the vector index, on the services without
\* LLM client: an ask reads the index as a search does and writes the history
\* store only, so it changes nothing of what these calls do
InitIndex == Init /\ ~svc.llm

NextIndex ==
    \/ \E items \in ItemLists : IndexCall(items)
    \/ \E call \in Calling : IndexWrite(call)
    \/ \E query \in Queries, k \in SearchKs : Search(query, k)

SpecIndex == InitIndex /\ [][NextIndex]_vars

\* The direct searches of the dense store, with the index calls that write
\* to the store while a search is in its loop.  A search writes nothing, so
\* it changes nothing of what another search does: one search at a time runs
\* here, beside the index calls.
InitStore == Init /\ svc.backend = "dense" /\ ~svc.llm

NoSearchInProgress == \A call \in Calling : call.at # "searching"

NextStore ==
    \/ \E items \in ItemLists : IndexCall(items)
    \/ \E call \in Calling : IndexWrite(call)
    \/ \E query_vec \in QueryVecs, k \in Ks : NoSearchInProgress /\ StoreSearch(query_vec, k)
    \/ \E call \in Calling : StoreSearchNext(call)

SpecStore == InitStore /\ [][NextStore]_vars

\* The asks, with the index calls that change what they find, on every
\* service: a search changes no store, so it changes nothing of what an ask
\* does
NextAsk ==
    \/ \E items \in ItemLists : IndexCall(items)
    \/ \E call \in Calling : IndexWrite(call)
    \/ \E question \in Queries, k \in 1..MaxK : AskCall(question, k)
    \/ \E call \in Calling, p \in Providers : AskReturn(call, p.chat, p.gen)

SpecAsk == Init /\ [][NextAsk]_vars

(***************************************************************************)
(* Two services of the same settings, one on each backend, and a client    *)
(* that sends each of its calls to the one built on DenseVectorStore and   *)
(* then to the one built on QdrantVectorStore: docs is the store of the    *)
(* first, points the collection of the second.                             *)
(***************************************************************************)

InProcess(s) == [s EXCEPT !.backend = "dense"]

External(s) == [s EXCEPT !.backend = "qdrant"]

\* the client's pair of calls in progress: where it stands, the arguments,
\* the chunk items left to write, len(chunk_items), and the outcome
\* [raised, ret] of the call to the first service
TwinCall(at, args, left, n, first) ==
    [at |-> at, args |-> args, left |-> left, n |-> n, first |-> first]

NoOutcome == [raised |-> "", ret |-> 0]

TwinReady == TwinCall("ready", <<>>, <<>>, 0, NoOutcome)

\* the two services as RAGService.build leaves them on the servers given: the
\* dense store of the first is empty, the second has the server's collection
BuiltTwin(server) ==
    /\ docs = EmptyDocs
    /\ points = EnsureCollection(server.found, server.points)
    /\ doc_store = IF svc.mongo THEN server.doc_store ELSE {}
    /\ history = IF svc.mongo THEN server.history ELSE 0

InitTwin ==
    /\ svc \in {s \in Services : s.backend = "dense" /\ ~s.llm}
    /\ \E server \in Servers : BuiltTwin(server)
    /\ inflight = TwinReady
    /\ rag_service = 1
    /\ built = 1
    /\ result = NoCall

\* the index call to the first service has ended with [raised, ret]: the
\* client goes on to the second service
TwinFirstIndexed(items, raised, ret) ==
    /\ inflight' = TwinCall("index.second", items, <<>>, 0, [raised |-> raised, ret |-> ret])
    /\ result' = NoCall

\* index on the first service from the chunking loop's result ch on
TwinChunked(items, ch) ==
    IF ch.err # "" THEN TwinFirstIndexed(items, ch.err, 0)
    ELSE IF ch.chunk_items = <<>> THEN TwinFirstIndexed(items, "", 0)
    ELSE /\ inflight' = TwinCall("writing", items, ch.chunk_items, Len(ch.chunk_items),
                                 NoOutcome)
         /\ result' = NoCall

\* rag.index(items) on the first service: steps 1 and 2
TwinIndexCall(items) ==
    /\ inflight.at = "ready"
    /\ doc_store' = StoreDocuments(InProcess(svc), Stores, items).doc_store
    /\ TwinChunked(items, ChunkItems(items, svc.chunker, <<>>))
    /\ UNCHANGED <<rag_service, built, svc, docs, points, history>>

\* the next write of step 3 on the first service
TwinWrite ==
    /\ inflight.at = "writing"
    /\ docs' = IndexWritten(InProcess(svc), VectorIndex, inflight.left).docs
    /\ IF LeftAfterWrite(InProcess(svc), inflight.left) = <<>>
       THEN TwinFirstIndexed(inflight.args, "", inflight.n)
       ELSE /\ inflight' = [inflight EXCEPT !.left = Tail(@)]
            /\ result' = NoCall
    /\ UNCHANGED <<rag_service, built, svc, points, doc_store, history>>

\* the pair of index calls has ended, the second with [raised, ret]
TwinIndexed(raised, ret) ==
    /\ inflight' = TwinReady
    /\ result' = Outcome("twin.index", inflight.args,
                         [dense |-> inflight.first.raised, qdrant |-> raised],
                         [dense |-> inflight.first.ret, qdrant |-> ret], <<>>, <<>>)

\* index on the second service from the chunking loop's result ch on
TwinChunkedSecond(ch) ==
    IF ch.err # "" THEN TwinIndexed(ch.err, 0)
    ELSE IF ch.chunk_items = <<>> THEN TwinIndexed("", 0)
    ELSE /\ inflight' = [inflight EXCEPT !.at = "upsert", !.left = ch.chunk_items,
                                         !.n = Len(ch.chunk_items)]
         /\ result' = NoCall

\* rag.index(items) on the second service: steps 1 and 2
TwinIndexSecond ==
    /\ inflight.at = "index.second"
    /\ doc_store' = StoreDocuments(External(svc), Stores, inflight.args).doc_store
    /\ TwinChunkedSecond(ChunkItems(inflight.args, svc.chunker, <<>>))
    /\ UNCHANGED <<rag_service, built, svc, docs, points, history>>

\* step 3 on the second service: the upsert of index_many, and the return
TwinUpsert ==
    /\ inflight.at = "upsert"
    /\ points' = IndexWritten(External(svc), VectorIndex, inflight.left).points
    /\ TwinIndexed("", IndexReturns(External(svc), points, inflight.left, inflight.n))
    /\ UNCHANGED <<rag_service, built, svc, docs, doc_store, history>>

\* rag.search(q, k) on the first service
TwinSearch(query, k) ==
    /\ inflight.at = "ready"
    /\ \E a \in RagSearch(InProcess(svc), Stores, query, k) :
          inflight' = TwinCall("search.second", <<query, k>>, <<>>, 0,
                               [raised |-> a.raised, ret |-> a.hits])
    /\ result' = NoCall
    /\ UNCHANGED <<rag_service, built, svc, docs, points, doc_store, history>>

\* rag.search(q, k) on the second service
TwinSearchSecond ==
    /\ inflight.at = "search.second"
    /\ \E b \in RagSearch(External(svc), Stores, inflight.args[1], inflight.args[2]) :
          result' = Outcome("twin.search", inflight.args,
                            [dense |-> inflight.first.raised, qdrant |-> b.raised],
                            [dense |-> inflight.first.ret, qdrant |-> b.hits], <<>>, <<>>)
    /\ inflight' = TwinReady
    /\ UNCHANGED <<rag_service, built, svc, docs, points, doc_store, history>>

NextTwin ==
    \/ \E items \in ItemLists : TwinIndexCall(items)
    \/ TwinWrite
    \/ TwinIndexSecond
    \/ TwinUpsert
    \/ \E query \in Queries, k \in SearchKs : TwinSearch(query, k)
    \/ TwinSearchSecond

SpecTwin == InitTwin /\ [][NextTwin]_vars

(***************************************************************************)
(* LLMClient.generate on its own, against the behaviours of the provider   *)
(***************************************************************************)

ObjectResponseAttr ==
    [kind |-> "object", message |-> "null", content |-> NoneVal, response |-> <<" Dogs bark. ">>]

DictMessage ==
    [kind |-> "dict", message |-> "present", content |-> " Mice.  ", response |-> "absent"]

DictEmptyMessage ==
    [kind |-> "dict", message |-> "present", content |-> NoneVal, response |-> <<"Dogs.">>]

DictObjectMessage ==
    [kind |-> "dict", message |-> "object", content |-> NoneVal, response |-> <<"Dogs.">>]

DictEmptyResponse ==
    [kind |-> "dict", message |-> "absent", content |-> NoneVal, response |-> <<"">>]

ObjectNoContent ==
    [kind |-> "object", message |-> "present", content |-> NoneVal, response |-> "absent"]

\* the responses the provider may give to a call
Responses ==
    {NoResponse, TextResponse, BlankResponse, GenerateResponse, NullResponse,
     ObjectResponseAttr, DictMessage, DictEmptyMessage, DictObjectMessage,
     DictEmptyResponse, ObjectNoContent}

\* what the provider may do on a call: give a response, or fail
ProviderOutcomes == {Returns(r) : r \in Responses} \cup {Refused}

InitLLM ==
    /\ svc \in {s \in Services : s.backend = "dense" /\ s.llm /\ ~s.mongo}
    /\ docs = EmptyDocs
    /\ points = EmptyPoints
    /\ doc_store = {}
    /\ history = 0
    /\ inflight = <<>>
    /\ rag_service = 1
    /\ built = 1
    /\ result = NoCall

\* self.llm.generate(prompt), the provider doing chat on chat() and gen on
\* generate()
Generate(chat, gen) ==
    \E g \in {LLMGenerate(chat, gen)} :
        /\ result' = Outcome("llm.generate", <<chat, gen>>, "", g.ret, g.calls, <<>>)
        /\ UNCHANGED <<rag_service, built, svc, docs, points, doc_store, history, inflight>>

NextLLM == \E chat \in ProviderOutcomes, gen \in ProviderOutcomes : Generate(chat, gen)

SpecLLM == InitLLM /\ [][NextLLM]_vars

(***************************************************************************)
(* ChunkerService.chunk on its own, on documents made of a few paragraphs  *)
(***************************************************************************)

\* the most paragraphs of a document
MaxParas == 3

\* a paragraph shorter than min_chars
TinyPara == "Owls hunt at night."

\* a paragraph that starts with a pronoun
PronounPara == Rep("It rests by day. ", 8)

\* a paragraph between min_chars and target_chars
MidPara == Rep("Foxes roam the hills. ", 10)

\* a paragraph between target_chars and max_chars
BigPara == Rep("Bees make honey all day. ", 24)

\* a paragraph longer than max_chars
HugePara == HugeText

\* the paragraphs that chunk takes whole
Paras == {TinyPara, PronounPara, MidPara, BigPara}

\* up to MaxParas paragraphs; the oversized paragraph comes alone, or before
\* or after one other paragraph
ParaSeqs ==
    UNION {[1..n -> Paras] : n \in 1..MaxParas}
        \cup {ps \in UNION {[1..n -> Paras \cup {HugePara}] : n \in 1..2} :
                  \E i \in 1..Len(ps) : ps[i] = HugePara}

\* the documents: blank ones, and paragraphs separated by blank lines
DocTexts == {"", BlankText} \cup {Join(ps, "\n\n") : ps \in ParaSeqs}

DocChunkTable ==
    [x \in {<<d, Join(ps, "\n\n")>> : d \in {"d1"}, ps \in ParaSeqs} |-> Chunk(x[1], x[2])]

\* a chunker is built, and a document is at hand
InitChunk ==
    /\ svc \in {s \in Services : s.backend = "dense" /\ ~s.llm /\ s.mongo}
    /\ docs = EmptyDocs
    /\ points = EmptyPoints
    /\ doc_store \in {{<<"d1", t>>, <<"d2", CatsText>>} : t \in DocTexts}
    /\ history = 0
    /\ inflight = <<>>
    /\ rag_service = 1
    /\ built = 1
    /\ result = NoCall

\* self.chunker.chunk(doc_id, text) on a document at hand
ChunkCall(doc_id, text) ==
    /\ <<doc_id, text>> \in doc_store
    /\ \E r \in {Lookup(DocChunkTable, <<doc_id, text>>, Chunk(doc_id, text))} :
          result' = Outcome("chunk", <<doc_id, text>>, r.err, r.chunks, <<>>, <<>>)
    /\ UNCHANGED <<rag_service, built, svc, docs, points, doc_store, history, inflight>>

NextChunk == \E doc_id \in DocIds, text \in DocTexts \cup {CatsText} : ChunkCall(doc_id, text)

SpecChunk == InitChunk /\ [][NextChunk]_vars

(***************************************************************************)
(* ChunkerService.chunk called again and again on one ChunkerService, by   *)
(* the threads of the pool: each call has its frame (the locals of chunk   *)
(* and of its closure flush), the calls run block by block and interleave. *)
(* inflight is the log of the frames, in the order the calls were entered; *)
(* the frame of a call that ended stays in the log with what it returned   *)
(* to its caller or raised.                                                *)
(***************************************************************************)

\* the most calls that the log holds
MaxCalls == 3

\* a document of two paragraphs, the second starts with a pronoun: four
\* chunks, as every flush carries the last block over
ParasText == Join(<<BigPara, PronounPara>>, "\n\n")

\* the (doc_id, text) that the callers pass to chunk: two texts under one id,
\* and a document that chunk fails on
ChunkDocs == {<<"d1", ParasText>>, <<"d1", CatsText>>, <<"d2", HugeText>>}

\* the service as build leaves it on a first start, when the servers hold
\* nothing; no call of chunk has been entered
InitCalls ==
    /\ svc \in {s \in Services : s.backend = "dense" /\ ~s.llm /\ s.mongo}
    /\ \E server \in {s \in Servers : ~s.found} : Built(server)
    /\ inflight = <<>>
    /\ rag_service = 1
    /\ built = 1
    /\ result = NoCall

\* the frame of a call: where it is, its arguments, the blocks the loop has
\* still to take, the locals chunks, current_blocks, current_len and idx, and
\* what the call returned or raised
Frame(at, args, blocks, st, ret, raised) ==
    [at |-> at, args |-> args, blocks |-> blocks, st |-> st, ret |-> ret,
     raised |-> raised]

\* blocks = self._to_blocks(text), for the normalised text; chunk returns []
\* before that line when the text is empty
BlocksOf(text) == IF text = "" THEN <<>> ELSE ToBlocks(text)

\* the blocks of these documents
DocBlocksTable == [x \in ChunkDocs |-> BlocksOf(Normalize(x[2]))]

\* the frame after lines 24-39: chunk has returned [] for a text without
\* blocks, else the tiny blocks are merged and the locals are initialised
Entered(doc_id, text, blocks, start) ==
    IF blocks = <<>>
    THEN Frame("returned", <<doc_id, text>>, <<>>, start, <<>>, "")
    ELSE Frame("looping", <<doc_id, text>>, MergeTinyBlocks(blocks), start, <<>>, "")

\* the frame after one iteration of the loop, with the locals as the iteration
\* left them: an exception ends the call
Iterated(frame, st) ==
    IF st.err # ""
    THEN Frame("raised", frame.args, Tail(frame.blocks), st, <<>>, st.err)
    ELSE Frame("looping", frame.args, Tail(frame.blocks), st, <<>>, "")

\* the frame at return chunks, given the locals there: the caller gets the
\* local chunks
Left(frame, st) == Frame("returned", frame.args, <<>>, st, st.chunks, "")

\* the calls whose loop runs
LoopingCalls == {i \in DOMAIN inflight : inflight[i].at = "looping"}

\* the calls that have ended
EndedCalls == {i \in DOMAIN inflight : inflight[i].at # "looping"}

\* idx as the call entered last left it
LastIdx == IF inflight = <<>> THEN 0 ELSE inflight[Len(inflight)].st.idx

\* a chunker whose chunk counter is set once, not on every call: the call
\* goes on counting where the call entered before it has got to
ChunkEnterKeepsIdx(doc_id, text) ==
    /\ Len(inflight) < MaxCalls
    /\ \E frame \in {Entered(doc_id, text,
                             Lookup(DocBlocksTable, <<doc_id, text>>,
                                    BlocksOf(Normalize(text))),
                             [EmptyLoopState EXCEPT !.idx = LastIdx])} :
          inflight' = Append(inflight, frame)
    /\ UNCHANGED <<rag_service, built, svc, docs, points, doc_store, history, result>>

\* a thread enters chunk(doc_id, text): normalize, blocks, merge, and
\* chunks = [], current_blocks = [], current_len = 0, idx = 0
ChunkEnter(doc_id, text) ==
    /\ Len(inflight) < MaxCalls
    /\ \E frame \in {Entered(doc_id, text,
                             Lookup(DocBlocksTable, <<doc_id, text>>,
                                    BlocksOf(Normalize(text))), EmptyLoopState)} :
          inflight' = Append(inflight, frame)
    /\ UNCHANGED <<rag_service, built, svc, docs, points, doc_store, history, result>>

\* the call takes the next block: one iteration of the loop, on its frame
ChunkIterate(i) ==
    /\ i \in LoopingCalls
    /\ inflight[i].blocks # <<>>
    /\ \E frame \in {Iterated(inflight[i],
                              ChunkStep(inflight[i].st, inflight[i].blocks[1],
                                        inflight[i].args[1]))} :
          inflight' = [inflight EXCEPT ![i] = frame]
    /\ UNCHANGED <<rag_service, built, svc, docs, points, doc_store, history, result>>

\* the loop is over: flush(), chunks = self._fix_pronoun_starts(chunks), which
\* rebinds the local, and return chunks
ChunkLeave(i) ==
    /\ i \in LoopingCalls
    /\ inflight[i].blocks = <<>>
    /\ \E frame \in {Left(inflight[i],
                          [Flush(inflight[i].st, inflight[i].args[1])
                              EXCEPT !.chunks = FixPronounStarts(@)])} :
          inflight' = [inflight EXCEPT ![i] = frame]
    /\ UNCHANGED <<rag_service, built, svc, docs, points, doc_store, history, result>>

NextCalls ==
    \/ \E x \in ChunkDocs : ChunkEnter(x[1], x[2])
    \/ \E i \in 1..MaxCalls : ChunkIterate(i)
    \/ \E i \in 1..MaxCalls : ChunkLeave(i)

SpecCalls == InitCalls /\ [][NextCalls]_vars

\* a call that ran block by block among other calls has got what chunk gives
\* when it runs alone
FramesAgreeWithChunk ==
    \A i \in EndedCalls :
        [err |-> inflight[i].raised, chunks |-> inflight[i].ret]
            = Chunk(inflight[i].args[1], inflight[i].args[2])

(***************************************************************************)
(* RAGService.index called by several threads at once on the in-process    *)
(* index: the writes of the calls interleave chunk by chunk                *)
(***************************************************************************)

\* the most index calls in progress at a time
MaxCallers == 2

Callers == 1..MaxCallers

ConcItemLists ==
    {<< <<"d1", LongText>> >>, << <<"d1", CatsText>> >>, << <<"d1", BlankText>> >>,
     << <<"d1", CatsText>>, <<"d2", DogsText>> >>}

\* a caller before its call, in the loop over chunk_items, and after the call;
\* base is the index as the call found it
Caller(at, items, left, n, base) ==
    [at |-> at, items |-> items, left |-> left, n |-> n, base |-> base]

\* the stores after the process has served index(items) and nothing else
Served(items) ==
    /\ docs = DenseAddAll(EmptyDocs, ChunkItems(items, TRUE, <<>>).chunk_items)
    /\ doc_store = UpsertDocuments({}, items)

\* the index is empty, or holds a document indexed before
InitConc ==
    /\ svc \in {s \in Services : s.backend = "dense" /\ ~s.llm /\ s.mongo}
    /\ \E items \in {<<>>, << <<"d1", LongText>> >>} : Served(items)
    /\ points = EmptyPoints
    /\ history = 0
    /\ inflight = [c \in Callers |-> Caller("ready", <<>>, <<>>, 0, <<>>)]
    /\ rag_service = 1
    /\ built = 1
    /\ result = NoCall

\* index raises in, or returns from, the call of caller c
Ended(c, items, raised, ret, base) ==
    /\ inflight' = [inflight EXCEPT ![c] = Caller("done", items, <<>>, ret, base)]
    /\ result' = Outcome("index", items, raised, ret, <<>>, <<>>)

\* index up to its loop over chunk_items, ch being the chunking loop's result
Chunked(c, items, ch) ==
    IF ch.err # "" THEN Ended(c, items, ch.err, 0, docs)
    ELSE IF ch.chunk_items = <<>> THEN Ended(c, items, "", 0, docs)
    ELSE /\ inflight' = [inflight EXCEPT
                            ![c] = Caller("writing", items, ch.chunk_items, Len(ch.chunk_items), docs)]
         /\ UNCHANGED result

\* caller c calls index(items): steps 1 and 2 of RAGService.index
BeginIndex(c, items) ==
    /\ inflight[c].at = "ready"
    /\ doc_store' = StoreDocuments(svc, Stores, items).doc_store
    /\ Chunked(c, items, ChunkItems(items, svc.chunker, <<>>))
    /\ UNCHANGED <<rag_service, built, svc, docs, points, history>>

\* one iteration of the loop of step 3 in the call of caller c: embed the
\* chunk and store.add it; the call returns after its last iteration
WriteChunk(c) ==
    /\ inflight[c].at = "writing"
    /\ docs' = DenseAdd(docs, inflight[c].left[1][2], inflight[c].left[1][3],
                        EmbedOf(inflight[c].left[1][3]))
    /\ IF Len(inflight[c].left) = 1
       THEN Ended(c, inflight[c].items, "", inflight[c].n, inflight[c].base)
       ELSE /\ inflight' = [inflight EXCEPT ![c].left = Tail(@)]
            /\ UNCHANGED result
    /\ UNCHANGED <<rag_service, built, svc, points, doc_store, history>>

NextConc ==
    \/ \E c \in Callers, items \in ConcItemLists : BeginIndex(c, items)
    \/ \E c \in Callers : WriteChunk(c)

SpecConc == InitConc /\ [][NextConc]_vars

(***************************************************************************)
(* POST /ingest/url (main.py), on what WebLoaderService.fetch gives        *)
(***************************************************************************)

\* what FastAPI answers when the handler raises the exception named raised:
\* an HTTPException gives its own status code, any other exception 500
Response(status, body) == [status |-> status, body |-> body]

\* the except branch of ingest_url: its first statement evaluates
\* traceback.format_exc(), and main.py does not import traceback
IngestFailed(url, page, e) ==
    Outcome("ingest_url", <<url, page>>, "NameError",
            Response(500, "Internal Server Error"), <<"fetch">>, <<>>)

\* ingest_url after rag.index([(doc_id, text)]) gave r
Ingested(url, page, title, r) ==
    IF r.raised # ""
    THEN Outcome("ingest_url", <<url, page>>, r.raised,
                 Response(500, "Internal Server Error"), <<"fetch", "index">>, <<>>)
    ELSE Outcome("ingest_url", <<url, page>>, "",
                 Response(200, [ok |-> TRUE, doc_id |-> DocIdOfUrl(url), title |-> title,
                                indexed_chunks |-> r.ret, url |-> url]),
                 <<"fetch", "index">>, <<>>)

\* ingest_url from the chunking loop's result ch of
\* rag.index([(doc_id, text)]) on, up to step 3
IngestChunked(url, page, title, ch) ==
    IF ch.err # "" THEN Answers(Ingested(url, page, title, [raised |-> ch.err, ret |-> 0]))
    ELSE IF ch.chunk_items = <<>>
    THEN Answers(Ingested(url, page, title, [raised |-> "", ret |-> 0]))
    ELSE Begins(Call("writing", <<url, page>>, ch.chunk_items, Len(ch.chunk_items)))

\* ingest_url, f being what loader.fetch(url) gave: the except branch, or
\* steps 1 and 2 of rag.index([(doc_id, text)])
IngestFetched(url, page, f) ==
    IF f.raised # ""
    THEN /\ Answers(IngestFailed(url, page, f.raised))
         /\ UNCHANGED doc_store
    ELSE /\ doc_store' = StoreDocuments(svc, Stores, << <<DocIdOfUrl(url), f.text>> >>).doc_store
         /\ IngestChunked(url, page, f.title,
                          ChunkItems(<< <<DocIdOfUrl(url), f.text>> >>, svc.chunker, <<>>))

\* POST /ingest/url up to step 3 of rag.index
IngestUrl(url, page) ==
    /\ ClientFree
    /\ IngestFetched(url, page, Fetched(page))
    /\ UNCHANGED <<rag_service, built, svc, docs, points, history>>

\* the next write of step 3 of an ingest in progress; after the last one
\* rag.index returns and ingest_url answers
IngestWrite(call) ==
    /\ call.at = "writing"
    /\ \E w \in {IndexWritten(svc, VectorIndex, call.left)} :
          docs' = w.docs /\ points' = w.points
    /\ IF LeftAfterWrite(svc, call.left) = <<>>
       THEN Ends(call, Ingested(call.args[1], call.args[2], Fetched(call.args[2]).title,
                                [raised |-> "",
                                 ret    |-> IndexReturns(svc, points, call.left, call.n)]))
       ELSE GoesOn(call, [call EXCEPT !.left = Tail(@)])
    /\ UNCHANGED <<rag_service, built, svc, doc_store, history>>

InitIngest ==
    /\ svc \in {s \in Services : ~s.llm}
    /\ \E server \in Servers : Built(server)
    /\ inflight = NoCalls
    /\ rag_service = 1
    /\ built = 1
    /\ result = NoCall

NextIngest ==
    \/ \E url \in Urls, page \in Pages : IngestUrl(url, page)
    \/ \E call \in Calling : IngestWrite(call)

SpecIngest == InitIngest /\ [][NextIngest]_vars

(***************************************************************************)
(* The dependency rag_service_dep (main.py): FastAPI runs it, as it runs   *)
(* the handlers, in a pool of threads, one request a thread.  A service    *)
(* is named by the ordinal of the build that made it.                      *)
(***************************************************************************)

\* the most requests in progress at a time
MaxRequests == 3

Requests == 1..MaxRequests

\* _rag_service = None, where services are named 1, 2, ...
NoService == 0

\* a request in rag_service_dep: where it is, the service it built, and the
\* service its handler received
Request(at, mine, got) == [at |-> at, mine |-> mine, got |-> got]

\* the process has started: no service is built
InitDep ==
    /\ svc \in {s \in Services : s.backend = "dense" /\ ~s.llm /\ ~s.mongo}
    /\ docs = EmptyDocs
    /\ points = EmptyPoints
    /\ doc_store = {}
    /\ history = 0
    /\ inflight = [r \in Requests |-> Request("check", NoService, NoService)]
    /\ rag_service = NoService
    /\ built = 0
    /\ result = NoCall

\* if _rag_service is None:
CheckGlobal(r) ==
    /\ inflight[r].at = "check"
    /\ inflight' = [inflight EXCEPT ![r].at = IF rag_service = NoService THEN "build" ELSE "return"]
    /\ UNCHANGED <<rag_service, built, svc, docs, points, doc_store, history, result>>

\* RAGService.build(settings) runs
Build(r) ==
    /\ inflight[r].at = "build"
    /\ built' = built + 1
    /\ inflight' = [inflight EXCEPT ![r] = Request("assign", built + 1, NoService)]
    /\ UNCHANGED <<rag_service, svc, docs, points, doc_store, history, result>>

\* _rag_service = <the service built>
AssignGlobal(r) ==
    /\ inflight[r].at = "assign"
    /\ rag_service' = inflight[r].mine
    /\ inflight' = [inflight EXCEPT ![r].at = "return"]
    /\ UNCHANGED <<built, svc, docs, points, doc_store, history, result>>

\* return _rag_service: the handler of the request receives the service
ReturnGlobal(r) ==
    /\ inflight[r].at = "return"
    /\ inflight' = [inflight EXCEPT ![r] = Request("handler", @.mine, rag_service)]
    /\ result' = Outcome("rag_service_dep", <<r>>, "", rag_service, <<>>, <<>>)
    /\ UNCHANGED <<rag_service, built, svc, docs, points, doc_store, history>>

NextDep ==
    \E r \in Requests : CheckGlobal(r) \/ Build(r) \/ AssignGlobal(r) \/ ReturnGlobal(r)

SpecDep == InitDep /\ [][NextDep]_vars

(***************************************************************************)
(* The contents of the vector index, whichever the backend                 *)
(***************************************************************************)

\* the document a chunk id f"{doc_id}#chunk{idx}" belongs to
DocOf(chunk_id) == SubSeq(chunk_id, 1, Find(chunk_id, "#chunk", 1) - 1)

\* the entries of a vector index [docs, points], as [doc_id, chunk_id, text]
EntriesOf(index) ==
    IF svc.backend = "qdrant"
    THEN {[doc_id |-> p.payload.doc_id, chunk_id |-> p.payload.chunk_id,
           text |-> p.payload.text] : p \in index.points}
    ELSE {[doc_id |-> DocOf(index.docs[i].id), chunk_id |-> index.docs[i].id,
           text |-> index.docs[i].text] : i \in 1..Len(index.docs)}

\* the entries of the vector index
IndexEntries == EntriesOf(VectorIndex)

\* no call is in progress
Quiet == inflight = NoCalls

\* the entries the chunks of the text t of document d make
EntriesOfText(d, t) ==
    {[doc_id |-> d, chunk_id |-> c[1], text |-> c[2]] :
        c \in {ChunkOf(d, Strip(t)).chunks[i] : i \in 1..Len(ChunkOf(d, Strip(t)).chunks)}}

SingleDocLists == {items \in ItemLists : Len(items) = 1}

\* the place of an id in the order of first insertion
PlaceOf(stored, id) == CHOOSE i \in 1..Len(stored) : stored[i].id = id

\* how often call occurs in a trace
Calls(trace, call) == Cardinality({i \in 1..Len(trace) : trace[i] = call})

\* the LLM call yields nothing usable: the provider call fails, or no text can
\* be extracted from its response
Unusable(p) ==
    \/ p.chat.raises # ""
    \/ /\ ExtractText(p.chat.resp) = ""
       /\ (p.gen.raises # "" \/ ExtractText(p.gen.resp) = "")

(***************************************************************************)
(* The claims                                                              *)
(***************************************************************************)

\* the chunks of the only document of items are in the vector index, as an
\* index(items) that returned has left them
Indexed(items) == EntriesOfText(items[1][1], items[1][2]) \subseteq IndexEntries

\* C1: while a document already indexed is indexed again, every write of the
\* second call leaves the vector index as it was: the same entries, none
\* duplicated
C1_IdempotentIndex ==
    \A call \in Calling :
        (call.at = "writing" /\ Len(call.args) = 1 /\ Indexed(call.args))
        => IndexWritten(svc, VectorIndex, call.left) = VectorIndex

\* a document of several chunks has been indexed over other contents, and the
\* only call in progress, which indexes it again, has written the first of
\* its chunks
C1_Witness ==
    \E call \in Calling :
        /\ inflight = SetToBag({call})
        /\ call.at = "writing" /\ Len(call.args) = 1 /\ Indexed(call.args)
        /\ call.n > 1
        /\ Len(call.left) < call.n
        /\ Cardinality(IndexEntries) > call.n

\* C2: after index([(d, t)]) has written the chunks of t and returned, no
\* other call being in progress, the entries of the vector index that belong
\* to d are exactly the chunks of t
C2_ReingestReplaces ==
    (/\ result.op = "index" /\ result.raised = ""
     /\ Len(result.args) = 1 /\ result.ret >= 1
     /\ Quiet)
    => {e \in IndexEntries : e.doc_id = result.args[1][1]}
           = EntriesOfText(result.args[1][1], result.args[1][2])

\* the loop of the search that ended read the entries the store holds: no
\* write came between its steps (the mutual exclusion around add and search
\* that the in-process store needs from concurrent callers), or the writes
\* that came left the entries as they were
ReadTheStored(r) == r.op = "store.search" /\ r.trace = ScoredAll(docs, r.args[1])

\* C3: for the stored entries, DenseVectorStore.search(query_vec, k), its loop
\* having read these entries, does not raise and returns min(k, n) hits, each
\* the (id, cosine score, text) of a stored entry, none twice, by
\* non-increasing score, equal scores in the order of first insertion, and no
\* entry left out scores higher than a returned one
C3_DenseRanking ==
    ReadTheStored(result) =>
        LET query_vec == result.args[1]
            k         == result.args[2]
            hits      == result.ret
            stored    == docs
            returned  == {hits[i][1] : i \in 1..Len(hits)}
        IN  /\ result.raised = ""
            /\ Len(hits) = Min({k, Len(stored)})
            /\ Cardinality(returned) = Len(hits)
            /\ \A i \in 1..Len(hits) :
                  \E j \in 1..Len(stored) :
                     hits[i] = <<stored[j].id, Cosine(query_vec, stored[j].vec), stored[j].text>>
            /\ \A i, j \in 1..Len(hits) :
                  i < j => \/ hits[i][2] > hits[j][2]
                           \/ /\ hits[i][2] = hits[j][2]
                              /\ PlaceOf(stored, hits[i][1]) < PlaceOf(stored, hits[j][1])
            /\ \A j \in 1..Len(stored) :
                  stored[j].id \notin returned =>
                     \A i \in 1..Len(hits) : Cosine(query_vec, stored[j].vec) <= hits[i][2]

\* a search returned two entries of the same positive score and left others
\* out, on a store that an index call in progress had written part of its
\* chunks to
C3_Witness ==
    /\ ReadTheStored(result)
    /\ \E call \in Calling : call.at = "writing" /\ Len(call.left) < call.n
    /\ Len(result.ret) = 2 /\ Len(docs) > 2
    /\ result.ret[1][2] = result.ret[2][2] /\ result.ret[1][2] > 0

\* C4: RAGService.search("", k=5) on an empty index returns an empty sequence
\* and does not raise, on either backend
C4_EmptyQueryOnEmptyIndex ==
    (/\ result.op = "search" /\ result.args = <<"", DefaultK>>
     /\ IndexEntries = {})
    => (result.raised = "" /\ result.ret = <<>>)

\* C5: with n >= 1 chunks in the index it searches, RAGService.search(query,
\* k) with k >= 1 returns min(k, n) hits, each with the text of an indexed
\* chunk and the id of that chunk or of its document
C5_EndToEndRetrieval ==
    (/\ result.op = "search" /\ result.args[2] >= 1
     /\ IndexEntries # {})
    => /\ result.raised = ""
       /\ Len(result.ret) = Min({result.args[2], Cardinality(IndexEntries)})
       /\ \A i \in 1..Len(result.ret) :
             \E e \in IndexEntries :
                /\ result.ret[i][3] = e.text
                /\ result.ret[i][1] \in {e.chunk_id, e.doc_id}

\* C6: after the same index calls, a service on the dense store and one on
\* the external store answer the same search alike: both return, and the
\* same sequence of hits
C6_BackendSubstitutable ==
    result.op = "twin.search" =>
        /\ result.raised.dense = "" /\ result.raised.qdrant = ""
        /\ result.ret.dense = result.ret.qdrant

\* C7: with no LLM client, ask returns an answer that says the LLM is not
\* configured, with no sources, and does not raise; the call is one step (it
\* leaves no call in progress), which changes neither the vector index nor
\* the document and history stores
C7_AskWithoutLLM ==
    /\ [](~svc.llm /\ result.op = "ask" =>
            /\ result.raised = ""
            /\ Contains(result.ret.answer, "LLM is not configured")
            /\ result.ret.sources = <<>>
            /\ result.ret.question = result.args[1])
    /\ [][(~svc.llm /\ result'.op = "ask") =>
             UNCHANGED <<docs, points, doc_store, history, inflight>>]_vars

\* ask has answered on a service without LLM client whose index is not empty
C7_Witness ==
    /\ ~svc.llm /\ svc.mongo
    /\ result.op = "ask"
    /\ IndexEntries # {}

\* C8: with an LLM client configured, ask on an empty index returns the fixed
\* answer "I couldn't find any relevant information in the knowledge base."
\* with no sources
C8_NoHitFallback ==
    (svc.llm /\ result.op = "ask" /\ IndexEntries = {})
    => /\ result.raised = ""
       /\ result.ret.answer = NoHitsAnswer
       /\ result.ret.sources = <<>>

\* C9: an ask calls the LLM's generate at most once, and only after its
\* search returned at least one hit
C9_LLMCallOrder ==
    result.op = "ask" =>
        /\ Calls(result.trace, "llm.generate") <= 1
        /\ \A i \in 1..Len(result.trace) :
              result.trace[i] = "llm.generate" =>
                 /\ \E j \in 1..(i - 1) : result.trace[j] = "search"
                 /\ result.ret.sources # <<>>
        /\ result.ret.sources = <<>> => Calls(result.trace, "llm.generate") = 0

\* an ask searched, found hits and called the LLM
C9_Witness ==
    /\ result.op = "ask"
    /\ result.trace = <<"search", "llm.generate">>
    /\ Len(result.ret.sources) >= 1

\* C10: the answer of an ask is never blank, and it is "I don't know." when
\* the LLM call yields nothing usable
C10_UnusableLLMResult ==
    (result.op = "ask" /\ result.raised = "")
    => /\ Strip(result.ret.answer) # ""
       /\ (result.llm # <<>> /\ Unusable(result.llm[1]))
             => result.ret.answer = DontKnowAnswer

\* C11: LLMClient.generate does not raise, calls the provider's generate only
\* after its chat returned a response without text, and returns "" whenever
\* the provider call fails or no text can be extracted from the responses
C11_GenerateResult ==
    result.op = "llm.generate" =>
        /\ result.raised = ""
        /\ result.trace \in {<<"chat">>, <<"chat", "generate">>}
        /\ result.trace = <<"chat", "generate">> =>
              (result.args[1].raises = "" /\ ExtractText(result.args[1].resp) = "")
        /\ Unusable([chat |-> result.args[1], gen |-> result.args[2]]) => result.ret = ""

\* the number of chunks the chunker produces for the documents of items
RECURSIVE ChunksProduced(_)
ChunksProduced(items) ==
    IF items = <<>> THEN 0
    ELSE Len(ChunkOf(items[1][1], Strip(items[1][2])).chunks) + ChunksProduced(Tail(items))

\* every document of items has empty or whitespace-only text
AllBlank(items) == \A i \in 1..Len(items) : Strip(items[i][2]) = ""

\* C12: index(items) returns the number of chunks it wrote to the vector
\* index, the sum over the documents of the number of chunks the chunker
\* produces for them; when every document is empty or whitespace-only it
\* returns 0, in one step that leaves the vector index alone
C12_IndexReturnValue ==
    /\ [](result.op = "index" =>
             /\ result.raised = ""
             /\ result.ret = ChunksProduced(result.args)
             /\ AllBlank(result.args) => result.ret = 0)
    /\ [][(result'.op = "index" /\ AllBlank(result'.args)) =>
             UNCHANGED <<docs, points, inflight>>]_vars

\* the blocks of a document after block extraction and tiny-block merging
MergedBlocks(text) ==
    IF Normalize(text) = "" THEN <<>> ELSE MergeTinyBlocks(ToBlocks(Normalize(text)))

\* the blocks of a document that are longer than max_chars
OversizedBlocks(text) ==
    {MergedBlocks(text)[i] : i \in {j \in 1..Len(MergedBlocks(text)) :
                                       Len(MergedBlocks(text)[j]) > max_chars}}

\* some chunk text of chunks holds the text piece
InSomeChunk(chunks, piece) == \E i \in 1..Len(chunks) : Contains(chunks[i][2], piece)

\* C13: for a document with a block longer than max_chars, chunk completes,
\* and the chunks it returns hold the pieces of that block, split after
\* sentence ends and packed into runs of at most max_chars
C13_OversizedBlock ==
    result.op = "chunk" =>
        \A b \in OversizedBlocks(result.args[2]) :
            /\ result.raised = ""
            /\ \A i \in 1..Len(SplitLargeBlock(b)) :
                  /\ Len(SplitLargeBlock(b)[i]) <= max_chars
                  /\ InSomeChunk(result.ret, SplitLargeBlock(b)[i])

\* the text block occurs in text at or after the position from; 0: nowhere
FindFrom(text, block, from) ==
    MinOrZero({i \in from..(Len(text) - Len(block) + 1) :
                  SubSeq(text, i, i + Len(block) - 1) = block})

\* the blocks occur in text one after the other without overlapping, from
\* the position from on
RECURSIVE InOrder(_, _, _)
InOrder(text, blocks, from) ==
    IF blocks = <<>> THEN TRUE
    ELSE IF FindFrom(text, blocks[1], from) = 0 THEN FALSE
    ELSE InOrder(text, Tail(blocks), FindFrom(text, blocks[1], from) + Len(blocks[1]))

\* the texts of chunks, one after the other
AllChunkText(chunks) == Join([i \in 1..Len(chunks) |-> chunks[i][2]], "\n\n")

\* C14: for a non-empty document, every block that survives block extraction
\* and tiny-block merging is in the text of some returned chunk, and the
\* blocks occur in the chunk texts in their original order
C14_ChunkCoverage ==
    (result.op = "chunk" /\ Strip(result.args[2]) # "") =>
        /\ result.raised = ""
        /\ \A i \in 1..Len(MergedBlocks(result.args[2])) :
              InSomeChunk(result.ret, MergedBlocks(result.args[2])[i])
        /\ InOrder(AllChunkText(result.ret), MergedBlocks(result.args[2]), 1)

\* C15: the i-th chunk returned by chunk(doc_id, text), counted from 0, has the
\* id "{doc_id}#chunk{i}": the ids of a result are pairwise distinct and
\* their ordinals are 0, 1, 2, ... without gaps
C15_ChunkIds ==
    result.op = "chunk" =>
        /\ \A i \in 1..Len(result.ret) :
              result.ret[i][1] = result.args[1] \o "#chunk" \o ToString(i - 1)
        /\ \A i, j \in 1..Len(result.ret) : result.ret[i][1] = result.ret[j][1] => i = j

\* a document has been chunked into three chunks or more
C15_Witness == result.op = "chunk" /\ result.raised = "" /\ Len(result.ret) >= 3

\* the chunks the accumulation loop and the final flush emit, before the
\* pronoun pass
LoopChunks(doc_id, text) ==
    IF MergedBlocks(text) = <<>> THEN <<>>
    ELSE Flush(ChunkLoop(MergedBlocks(text), EmptyLoopState, doc_id), doc_id).chunks

\* C16: every chunk that chunk returns has a text that is not empty once
\* trimmed, the chunks the pronoun pass rewrote included; for an empty or
\* whitespace-only text chunk returns the empty sequence
C16_NoEmptyChunk ==
    result.op = "chunk" =>
        /\ \A i \in 1..Len(result.ret) : Strip(result.ret[i][2]) # ""
        /\ Strip(result.args[2]) = "" => (result.raised = "" /\ result.ret = <<>>)

\* chunk has returned several chunks, one of them rewritten by the pronoun pass
C16_Witness ==
    /\ result.op = "chunk"
    /\ result.raised = ""
    /\ Len(result.ret) >= 2
    /\ result.ret # LoopChunks(result.args[1], result.args[2])

\* two calls of chunk that have ended and had the same (doc_id, text) returned
\* the same sequence of (chunk_id, chunk_text), or raised the same
SameArgsSameReturn ==
    \A i \in EndedCalls : \A j \in EndedCalls :
        inflight[i].args = inflight[j].args
            => /\ inflight[i].raised = inflight[j].raised
               /\ inflight[i].ret = inflight[j].ret

\* a step of a call changes the frame of that call alone: no frame of another
\* call, no frame of a call that has ended, nothing of the service
OwnFrameOnly ==
    /\ UNCHANGED <<rag_service, built, svc, docs, points, doc_store, history, result>>
    /\ \A i \in DOMAIN inflight :
          /\ i \in DOMAIN inflight'
          /\ i \in EndedCalls => inflight'[i] = inflight[i]
          /\ inflight'[i] # inflight[i]
                => \A j \in DOMAIN inflight \ {i} : inflight'[j] = inflight[j]

\* C17: chunker determinism. Whenever two calls of chunk that have ended had
\* the same (doc_id, text), they returned the same sequence of
\* (chunk_id, chunk_text), whichever calls were entered before, between or
\* during them; and chunk keeps no state between calls: every step of a call
\* changes the frame of that call alone.
C17_ChunkerDeterminism == []SameArgsSameReturn /\ [][OwnFrameOnly]_vars

\* two calls with the same arguments have returned their four chunks, and a
\* call with the same doc_id and another text was entered between them and has
\* returned its chunk
C17_Witness ==
    \E i \in EndedCalls : \E j \in EndedCalls : \E k \in EndedCalls :
        /\ i < j
        /\ j < k
        /\ inflight[i].args = inflight[k].args
        /\ inflight[j].args[1] = inflight[i].args[1]
        /\ inflight[j].args[2] # inflight[i].args[2]
        /\ Len(inflight[j].ret) >= 1
        /\ Len(inflight[i].ret) = 4
        /\ Len(inflight[k].ret) = 4
        /\ inflight[k].ret[4][1] = ChunkId(inflight[k].args[1], 3)

\* C18: when the index calls that ran at once were all for the same document,
\* with the same id and text, then, however their writes interleaved, the
\* vector index ends as a single one of the calls would have left it
C18_ConcurrentReindex ==
    \A items \in {l \in ConcItemLists : Len(l) = 1} :
        (\A c \in Callers : inflight[c].at = "done" /\ inflight[c].items = items) =>
            \A c \in Callers :
                docs = DenseAddAll(inflight[c].base, ChunkItems(items, svc.chunker, <<>>).chunk_items)

\* two calls for the same document of several chunks have ended, the second
\* having begun while the first was writing its chunks
C18_Witness ==
    /\ \A c \in Callers : inflight[c].at = "done" /\ inflight[c].items = << <<"d1", LongText>> >>
    /\ inflight[1].base = EmptyDocs
    /\ inflight[2].base # EmptyDocs
    /\ inflight[2].base # docs

\* text ends with the block
EndsWithBlock(text, block) ==
    Len(block) <= Len(text) /\ SubSeq(text, Len(text) - Len(block) + 1, Len(text)) = block

\* the merged blocks that a chunk text ends with
EndingBlocks(chunk_text, blocks) ==
    {blocks[i] : i \in {j \in 1..Len(blocks) : EndsWithBlock(chunk_text, blocks[j])}}

\* the chunk text next begins with the last block of the chunk text prev, a
\* whole element of the merged block list
SeededWith(prev, next, blocks) ==
    \E b \in EndingBlocks(prev, blocks) :
        /\ \A other \in EndingBlocks(prev, blocks) : Len(other) <= Len(b)
        /\ StartsWith(next, b)

\* C19: every chunk the accumulation loop emits after another one begins with
\* the last block of the chunk emitted before it, the block being a whole
\* element of the merged block list, also when tiny-block merging built it
\* from several paragraphs
C19_OverlapSeeding ==
    result.op = "chunk" =>
        \A i \in 1..(Len(LoopChunks(result.args[1], result.args[2])) - 1) :
            SeededWith(LoopChunks(result.args[1], result.args[2])[i][2],
                       LoopChunks(result.args[1], result.args[2])[i + 1][2],
                       MergedBlocks(result.args[2]))

\* C20: when no merged block of the document is longer than max_chars, no
\* chunk emitted by the accumulation loop, before the pronoun pass, is longer
\* than max_chars
C20_MaximumChunkSize ==
    (result.op = "chunk" /\ OversizedBlocks(result.args[2]) = {}) =>
        \A i \in 1..Len(LoopChunks(result.args[1], result.args[2])) :
            Len(LoopChunks(result.args[1], result.args[2])[i][2]) <= max_chars

\* the merged blocks of a document are pairwise different texts
DistinctBlocks(text) ==
    \A i, j \in 1..Len(MergedBlocks(text)) :
        MergedBlocks(text)[i] = MergedBlocks(text)[j] => i = j

\* the chunk at place i of chunks holds a block that no chunk before it holds
HoldsNewBlock(chunks, i, blocks) ==
    \E k \in 1..Len(blocks) :
        /\ Contains(chunks[i][2], blocks[k])
        /\ \A j \in 1..(i - 1) : ~Contains(chunks[j][2], blocks[k])

\* C21: every chunk that chunk returns holds a block that no earlier chunk of
\* the result holds, none being made of carried-over blocks only; a document
\* that is one block of target_chars to max_chars characters gives one chunk
C21_NoOverlapOnlyChunk ==
    (result.op = "chunk" /\ result.raised = "" /\ DistinctBlocks(result.args[2])) =>
        /\ \A i \in 1..Len(result.ret) :
              HoldsNewBlock(result.ret, i, MergedBlocks(result.args[2]))
        /\ (/\ Len(MergedBlocks(result.args[2])) = 1
            /\ Len(MergedBlocks(result.args[2])[1]) >= target_chars
            /\ Len(MergedBlocks(result.args[2])[1]) <= max_chars) => Len(result.ret) = 1

\* the extraction of the page of an ingest request was too short
ShortExtraction(r) ==
    /\ r.op = "ingest_url"
    /\ ~r.args[2].fails
    /\ Len(FetchTable[r.args[2]].text) < min_extracted

\* C22: when the extraction of the page gives fewer than 200 characters,
\* ingest_url answers 422 "Ingest failed", does not call RAGService.index,
\* and its one step (it leaves no call in progress) leaves the vector index
\* as it was
C22_RejectedIngest ==
    /\ [](ShortExtraction(result) =>
             /\ result.ret.status = 422
             /\ StartsWith(result.ret.body, "Ingest failed")
             /\ result.trace = <<"fetch">>)
    /\ [][ShortExtraction(result') => UNCHANGED <<docs, points, inflight>>]_vars

\* C23: however the requests interleave, RAGService.build runs at most once
\* in the process, and the handlers all receive the same service
C23_ServiceSingleton ==
    /\ built <= 1
    /\ \A r1, r2 \in Requests :
          (inflight[r1].at = "handler" /\ inflight[r2].at = "handler") =>
              inflight[r1].got = inflight[r2].got

\* the text begins, in whatever case, with one of the listed words
BeginsWithListed(text) ==
    \E p \in {"it ", "this ", "they ", "these ", "also ", "therefore ", "however "} :
        Len(text) >= Len(p) /\ Lower(SubSeq(text, 1, Len(p))) = p

\* the last paragraph of a chunk text
LastParagraph(text) == Split(text, "\n\n")[Len(Split(text, "\n\n"))]

\* the pronoun pass turned the chunks before into the chunks after
PronounFrame(before, after) ==
    /\ Len(after) = Len(before)
    /\ \A i \in 1..Len(before) : after[i][1] = before[i][1]
    /\ before # <<>> => after[1][2] = before[1][2]
    /\ \A i \in 2..Len(before) :
          after[i][2] # before[i][2] =>
              /\ BeginsWithListed(before[i][2])
              /\ after[i][2] = LastParagraph(before[i - 1][2]) \o "\n\n" \o before[i][2]

\* C24: _fix_pronoun_starts returns as many chunks, with the same ids in the
\* same order; it leaves the first text alone, and changes a later text only
\* when that begins, in whatever case, with a listed pronoun or connective,
\* and then by putting the last paragraph of the chunk before it and a blank
\* line in front
C24_PronounFrame ==
    (result.op = "chunk" /\ result.raised = "") =>
        PronounFrame(LoopChunks(result.args[1], result.args[2]), result.ret)

\* the pass has changed one chunk of a result and left a later one alone
C24_Witness ==
    /\ result.op = "chunk"
    /\ result.raised = ""
    /\ \E i, j \in 2..Len(result.ret) :
          /\ i < j
          /\ result.ret[i][2] # LoopChunks(result.args[1], result.args[2])[i][2]
          /\ result.ret[j][2] = LoopChunks(result.args[1], result.args[2])[j][2]

\* the blocks of a document as block extraction gives them to _merge_tiny_blocks
ExtractedBlocks(text) == IF Normalize(text) = "" THEN <<>> ELSE ToBlocks(Normalize(text))

\* C25: in the list _merge_tiny_blocks returns, every block but the last is at
\* least min_chars long, and the blocks keep their order: joined with blank
\* lines, the output is the input joined with blank lines
C25_TinyBlockMerge ==
    result.op = "chunk" =>
        /\ \A i \in 1..(Len(MergedBlocks(result.args[2])) - 1) :
              Len(MergedBlocks(result.args[2])[i]) >= min_chars
        /\ Join(MergedBlocks(result.args[2]), "\n\n") = Join(ExtractedBlocks(result.args[2]), "\n\n")

\* a document with a tiny block has been chunked: merging left fewer blocks,
\* and more than one
C25_Witness ==
    /\ result.op = "chunk"
    /\ \E i \in 1..Len(ExtractedBlocks(result.args[2])) :
          Len(ExtractedBlocks(result.args[2])[i]) < min_chars
    /\ Len(MergedBlocks(result.args[2])) < Len(ExtractedBlocks(result.args[2]))
    /\ Len(MergedBlocks(result.args[2])) >= 2

====
